---- MODULE Spec2Model ----
(***************************************************************************)
(* Model of the valgrind-ws working-set engine (ws_main.c, version 0.4):   *)
(* the two page tables with their one-item lookup cache, the logical       *)
(* clock, the windowed sampler, the peak detectors and the context list.   *)
(*                                                                         *)
(* Float values of the peak detector are modelled in fixed point: a value  *)
(* v is the integer v * FOne, every product is divided by FOne again and   *)
(* truncated.  exp_approx squares in a finer fixed point (EOne).           *)
(*                                                                         *)
(* ref_data / ref_insn are history variables: the tables the uncached      *)
(* pageaccess of the earlier revision builds from the same call sequence.  *)
(* ticks and ev are history variables as well (number of compute_ws calls, *)
(* and what the last handler did).  info_runs counts the runs of           *)
(* compute_sample_info, ninfo is what the last run returned, and pk_log is *)
(* the log of the calls of peak_detect in the detector's own specification.*)
(* addr_log is the log of the addresses handed to track_locality in the    *)
(* tracker's own specification.                                            *)
(* out is what ws_fini has written to the output file, freed lists the     *)
(* tables and arrays ws_fini has released, in the order of the calls; the  *)
(* model keeps the last contents of a released table.                      *)
(* args is the command line: the options handed to                         *)
(* ws_process_cmd_line_option so far; clo_info_at is the list of numbers   *)
(* of the string given with --ws-info-at.                                  *)
(***************************************************************************)
EXTENDS Integers, Sequences, FiniteSets, TLC

\* ------------------------------------------------------------------------
\* bounds of the model
\* ------------------------------------------------------------------------
PageBits == 1      \* clo_pagesize = 2^PageBits
MaxPageNo == 1     \* addresses range over pages 0..MaxPageNo
MaxTime == 3       \* guest_instrs_executed stays <= MaxTime
MaxAcc == 3        \* at most MaxAcc helper calls (trace_instr/trace_data) per run
MaxBatch == 2      \* the counter is incremented by 1..MaxBatch per update

\* the command lines of the model: --ws-every, --ws-tau, --ws-peak-detect,
\* --ws-peak-window, --ws-track-locality and the times of --ws-info-at
Configs ==
  { [every |-> 1, tau |-> 2, pk |-> FALSE, window |-> 1, loc |-> FALSE, info |-> {}],
    [every |-> 2, tau |-> 1, pk |-> TRUE,  window |-> 1, loc |-> FALSE, info |-> {2}],
    [every |-> 2, tau |-> 2, pk |-> FALSE, window |-> 1, loc |-> TRUE,  info |-> {1, 2}],
    [every |-> 1, tau |-> 3, pk |-> TRUE,  window |-> 2, loc |-> FALSE, info |-> {1}] }

AddrBits == 8      \* width of the address words in the model

\* the detector's own specification: window lengths 1..MaxWindow, at most
\* MaxFeed calls of peak_detect, sample values from PeakInputs and threshold
\* gains (--ws-peak-thresh) from PeakThreshs
MaxWindow == 3
MaxFeed == 6
PeakInputs == {1, 6, 10, 50}

\* the pass over the context list on its own: lists of up to MaxCtx contexts,
\* at most MaxRuns runs of compute_sample_info
MaxCtx == 5
MaxRuns == 2

\* the locality tracker on its own: at most MaxTrack calls of track_locality
\* with addresses 0 .. MaxAddr
MaxTrack == 4
MaxAddr == 3

\* pageaddr on its own: page sizes 2^0 .. 2^MaxPgBits, at most MaxPgCalls
\* calls with addresses 0 .. MaxPgAddr
MaxPgBits == 3
MaxPgAddr == 15
MaxPgCalls == 2

\* the start-up on its own: command lines of up to MaxOpts options with
\* integer values from -1 .. MaxOptVal and --ws-info-at lists of up to
\* MaxInfoLen numbers from 1 .. MaxInfoVal; the run that follows is observed
\* for its last StartAcc helper calls
MaxOpts == 2
MaxOptVal == 2
MaxInfoLen == 3
MaxInfoVal == 2
StartAcc == 1

\* ------------------------------------------------------------------------
\* program constants
\* ------------------------------------------------------------------------
WS_DEFAULT_PS == 4096
WS_DEFAULT_EVERY == 100000
WS_DEFAULT_PEAKT == 5
WS_DEFAULT_PEAKW == 30
AdaptDen == 4              \* WS_DEFAULT_PEAKADP = 0.25f = 1 / AdaptDen
NULL == [tab |-> "none", key |-> -1]
NullExeContext == 0        \* ECU of VG_(null_ExeContext)()
ExeContexts == {1, 2}      \* ECUs VG_(record_ExeContext) can return

FOne == 2^8
EOne == 2^14

PeakThreshs == {1, WS_DEFAULT_PEAKT}

VARIABLES
  clo_pagesize, clo_every, clo_tau, clo_peakdetect, clo_localitytr, clo_peakwindow,
  ws_info_times, next_user_time_idx,
  postmortem, guest_instrs_executed,
  ht_data, ht_insn, lastaddr, lastpage,
  earliest_possible_time_of_next_ws,
  ws_at_time, drop_samples, ws_context_list,
  pd_data, pd_insn, locality_insn, locality_data,
  phase, nacc,
  ref_data, ref_insn, ticks, ev,
  ht_ec2sampleinfo, ninfo, info_runs,
  pk_log, addr_log,
  clo_info_at, args,
  out, freed,
  events, events_used, ninsn, sbOut,
  pt, mapped, ramp, ramp_log

vars == <<clo_pagesize, clo_every, clo_tau, clo_peakdetect, clo_localitytr, clo_peakwindow,
          ws_info_times, next_user_time_idx,
          postmortem, guest_instrs_executed,
          ht_data, ht_insn, lastaddr, lastpage,
          earliest_possible_time_of_next_ws,
          ws_at_time, drop_samples, ws_context_list,
          pd_data, pd_insn, locality_insn, locality_data,
          phase, nacc,
          ref_data, ref_insn, ticks, ev,
          ht_ec2sampleinfo, ninfo, info_runs,
          pk_log, addr_log,
          clo_info_at, args,
          out, freed,
          events, events_used, ninsn, sbOut,
          pt, mapped, ramp, ramp_log>>

config_vars == <<clo_pagesize, clo_every, clo_tau, clo_peakdetect, clo_localitytr,
                 clo_peakwindow, ws_info_times, clo_info_at, args>>

\* the table of unique contexts with the result and the number of the runs of
\* compute_sample_info
report_vars == <<ht_ec2sampleinfo, ninfo, info_runs>>

\* the output file and the log of the teardown
file_vars == <<out, freed>>

\* the event list of the block being instrumented and the block produced
instr_vars == <<events, events_used, ninsn, sbOut>>

\* the page table, the mappings and the position of the pageramp test
ramp_vars == <<pt, mapped, ramp, ramp_log>>

\* ------------------------------------------------------------------------
\* helpers
\* ------------------------------------------------------------------------
RECURSIVE BitAnd(_, _)
BitAnd(a, b) ==
  IF a = 0 \/ b = 0 THEN 0
  ELSE (a % 2) * (b % 2) + 2 * BitAnd(a \div 2, b \div 2)

BitNot(a) == (2^AddrBits - 1) - a

\* the addresses of the model: the first byte of page 0 and every byte of the
\* pages 1..MaxPageNo
Addrs == {0} \cup (2^PageBits .. ((MaxPageNo + 1) * 2^PageBits - 1))

RECURSIVE SortedSeq(_)
SortedSeq(S) ==
  IF S = {} THEN <<>>
  ELSE LET m == CHOOSE x \in S : \A y \in S : x <= y
       IN <<m>> \o SortedSeq(S \ {m})

Last(s) == s[Len(s)]

Abs(x) == IF x < 0 THEN -x ELSE x

\* ------------------------------------------------------------------------
\* pure functions of the engine
\* ------------------------------------------------------------------------
\* mutant: the mask is built from the page size, not from page size - 1
pageaddr_mask(ps, addr) == BitAnd(addr, BitNot(ps))

pageaddr(ps, addr) == BitAnd(addr, BitNot(ps - 1))

get_time(gie) == gie

\* mutant: the bound of the window is included
recently_used_pages_ge(ht, now_time, tau) ==
  LET tmin == IF tau < now_time THEN now_time - tau ELSE 0
  IN Cardinality({p \in DOMAIN ht : ht[p].last_access >= tmin})

recently_used_pages(ht, now_time, tau) ==
  LET tmin == IF tau < now_time THEN now_time - tau ELSE 0
  IN Cardinality({p \in DOMAIN ht : ht[p].last_access > tmin})

init_locality == [sum |-> 0, n |-> 0, pre |-> 0]

track_locality(li, addr) ==
  IF li.pre # addr
    THEN [sum |-> li.sum + Abs(li.pre - addr), n |-> li.n + 1, pre |-> addr]
    ELSE [li EXCEPT !.n = li.n + 1]

\* ------------------------------------------------------------------------
\* peak detector (fixed point, see the header)
\* ------------------------------------------------------------------------
FMul(a, b) == (a * b) \div FOne

\* n times "x *= x", in units of 1 / EOne
RECURSIVE SquareTimes(_, _)
SquareTimes(x, n) == IF n = 0 THEN x ELSE SquareTimes((x * x) \div EOne, n - 1)

\* x and the result are in units of 1 / EOne
exp_approx(x) == SquareTimes(EOne + x \div 256, 8)

init_peakd(window) ==
  [filt_pre |-> 0, peak_pre |-> 0, k |-> 0, movingAvg |-> 0, movingVar |-> 0,
   window |-> window, exp_alpha |-> (2 * FOne) \div (window + 1),
   adaptrate |-> FOne \div AdaptDen, threshgain |-> WS_DEFAULT_PEAKT]

\* mutant: the threshold does not adapt to the variance
peak_thresh_static(pd) ==
  (pd.movingAvg * pd.threshgain) \div 10

\* the adaptive threshold of peak_detect
peak_thresh(pd) ==
  LET fano == (pd.movingVar * FOne) \div pd.movingAvg
      coeff == IF pd.movingAvg > 0
                 THEN FOne - exp_approx(-((fano * (EOne \div FOne)) \div 2)) \div (EOne \div FOne)
                 ELSE FOne
  IN FMul(coeff, pd.movingVar) * pd.threshgain
     + (FMul(FOne - coeff, pd.movingAvg) * pd.threshgain) \div 10

\* mutant: peaks are honored during the warm-up as well
peak_sign_cold(pd, y, thresh) ==
  IF Abs(y * FOne - pd.movingAvg) > thresh
    THEN (IF y * FOne > pd.movingAvg THEN 1 ELSE -1)
    ELSE 0

\* the sign of the peak (0: none) that peak_detect computes for y
peak_sign(pd, y, thresh) ==
  IF pd.k >= pd.window /\ Abs(y * FOne - pd.movingAvg) > thresh
    THEN (IF y * FOne > pd.movingAvg THEN 1 ELSE -1)
    ELSE 0

\* mutant: the sign of this call is not stored for the next call
peak_update_stale(pd, y, pk) ==
  LET filt == IF pk # 0
                THEN FMul(pd.adaptrate, y * FOne) + FMul(FOne - pd.adaptrate, pd.filt_pre)
                ELSE y * FOne
      diff == filt - pd.movingAvg
      newVar == IF 0 < pd.k
                  THEN FMul(FOne - pd.exp_alpha, pd.movingVar + FMul(FMul(pd.exp_alpha, diff), diff))
                  ELSE 0
      newAvg == IF 0 < pd.k
                  THEN FMul(pd.exp_alpha, filt) + FMul(FOne - pd.exp_alpha, pd.movingAvg)
                  ELSE filt
  IN [pd  |-> [pd EXCEPT !.movingVar = newVar, !.movingAvg = newAvg,
                         !.k = IF pd.k < pd.window THEN pd.k + 1 ELSE pd.k,
                         !.filt_pre = filt],
      ret |-> (pk # pd.peak_pre)]

\* mutant: level-triggered, true on every call that computes a peak
peak_update_level(pd, y, pk) ==
  LET filt == IF pk # 0
                THEN FMul(pd.adaptrate, y * FOne) + FMul(FOne - pd.adaptrate, pd.filt_pre)
                ELSE y * FOne
      diff == filt - pd.movingAvg
      newVar == IF 0 < pd.k
                  THEN FMul(FOne - pd.exp_alpha, pd.movingVar + FMul(FMul(pd.exp_alpha, diff), diff))
                  ELSE 0
      newAvg == IF 0 < pd.k
                  THEN FMul(pd.exp_alpha, filt) + FMul(FOne - pd.exp_alpha, pd.movingAvg)
                  ELSE filt
  IN [pd  |-> [pd EXCEPT !.movingVar = newVar, !.movingAvg = newAvg,
                         !.k = IF pd.k < pd.window THEN pd.k + 1 ELSE pd.k,
                         !.filt_pre = filt, !.peak_pre = pk],
      ret |-> (pk # 0)]

\* mutant: the moving average is updated first, the variance uses the new one
peak_update_avg_first(pd, y, pk) ==
  LET filt == IF pk # 0
                THEN FMul(pd.adaptrate, y * FOne) + FMul(FOne - pd.adaptrate, pd.filt_pre)
                ELSE y * FOne
      newAvg == IF 0 < pd.k
                  THEN FMul(pd.exp_alpha, filt) + FMul(FOne - pd.exp_alpha, pd.movingAvg)
                  ELSE filt
      diff == filt - newAvg
      newVar == IF 0 < pd.k
                  THEN FMul(FOne - pd.exp_alpha, pd.movingVar + FMul(FMul(pd.exp_alpha, diff), diff))
                  ELSE 0
  IN [pd  |-> [pd EXCEPT !.movingVar = newVar, !.movingAvg = newAvg,
                         !.k = IF pd.k < pd.window THEN pd.k + 1 ELSE pd.k,
                         !.filt_pre = filt, !.peak_pre = pk],
      ret |-> (pk # pd.peak_pre)]

\* the rest of peak_detect: filter, moving variance, moving average, k, result
peak_update(pd, y, pk) ==
  LET filt == IF pk # 0
                THEN FMul(pd.adaptrate, y * FOne) + FMul(FOne - pd.adaptrate, pd.filt_pre)
                ELSE y * FOne
      diff == filt - pd.movingAvg
      newVar == IF 0 < pd.k
                  THEN FMul(FOne - pd.exp_alpha, pd.movingVar + FMul(FMul(pd.exp_alpha, diff), diff))
                  ELSE 0
      newAvg == IF 0 < pd.k
                  THEN FMul(pd.exp_alpha, filt) + FMul(FOne - pd.exp_alpha, pd.movingAvg)
                  ELSE filt
  IN [pd  |-> [pd EXCEPT !.movingVar = newVar, !.movingAvg = newAvg,
                         !.k = IF pd.k < pd.window THEN pd.k + 1 ELSE pd.k,
                         !.filt_pre = filt, !.peak_pre = pk],
      ret |-> (pk # pd.peak_pre)]

\* peak_detect: the new detector state (pd) and the value returned (ret)
peak_detect(pd, y) ==
  CHOOSE r \in { peak_update(pd, y, pk) :
                 pk \in { peak_sign(pd, y, th) : th \in {peak_thresh(pd)} } } : TRUE

\* ------------------------------------------------------------------------
\* page tables
\* ------------------------------------------------------------------------
\* A table is a function from the page addresses it holds to their records.
EmptyTable == [p \in {} |-> [count |-> 0, last_access |-> 0]]

HT_add_node(ht, key, now) ==
  [p \in DOMAIN ht \cup {key} |-> IF p = key THEN [count |-> 0, last_access |-> now] ELSE ht[p]]

Touch(ht, key, now) ==
  [ht EXCEPT ![key] = [count |-> ht[key].count + 1, last_access |-> now]]

\* pageaccess of the earlier revision: lookup or create, no cache
pageaccess_uncached(ht, pa, now) ==
  Touch(IF pa \in DOMAIN ht THEN ht ELSE HT_add_node(ht, pa, now), pa, now)

\* pageaccess up to the call of maybe_compute_ws.  tab names the table passed
\* ("data" or "insn"); the static lastaddr/lastpage are shared by all calls.
\* The result gives both tables, the cache, and whether a NULL record was
\* dereferenced.
pageaccess(pa, tab, htd, hti, la, lp, now) ==
  LET hit  == pa = la
      ht   == IF tab = "data" THEN htd ELSE hti
      page == IF hit THEN lp ELSE [tab |-> tab, key |-> pa]
      htd1 == IF ~hit /\ tab = "data" /\ pa \notin DOMAIN htd THEN HT_add_node(htd, pa, now) ELSE htd
      hti1 == IF ~hit /\ tab = "insn" /\ pa \notin DOMAIN hti THEN HT_add_node(hti, pa, now) ELSE hti
  IN IF page = NULL
       THEN [null_deref |-> TRUE, ht_data |-> htd, ht_insn |-> hti, lastaddr |-> la, lastpage |-> lp]
       ELSE [null_deref |-> FALSE,
             ht_data  |-> IF page.tab = "data" THEN Touch(htd1, page.key, now) ELSE htd1,
             ht_insn  |-> IF page.tab = "insn" THEN Touch(hti1, page.key, now) ELSE hti1,
             lastaddr |-> pa,
             lastpage |-> page]

\* ------------------------------------------------------------------------
\* sampler
\* ------------------------------------------------------------------------
\* the do-while loop of compute_ws that moves the cursor (0-based index into
\* ws_info_times, -1 when exhausted)
RECURSIVE advance_cursor(_, _, _)
advance_cursor(times, idx, now_time) ==
  LET nxt == IF idx < Len(times) - 1 THEN idx + 1 ELSE -1
  IN IF nxt < 0 THEN -1
     ELSE IF times[nxt + 1] < now_time THEN advance_cursor(times, nxt, now_time)
     ELSE nxt

\* mutant: the result of the allocation is not tested
record_sample_info_unchecked(list, now_time, pm, alloc_ok, ec) ==
  Append(list, [t |-> now_time, ec |-> IF ~pm THEN ec ELSE NullExeContext])

\* mutant: the context is recorded for the time after the sample, at the
\* front of the list
record_sample_info_front(list, now_time, pm, alloc_ok, ec) ==
  IF alloc_ok
    THEN <<[t |-> now_time + 1, ec |-> IF ~pm THEN ec ELSE NullExeContext]>> \o list
    ELSE list

record_sample_info(list, now_time, pm, alloc_ok, ec) ==
  IF alloc_ok
    THEN Append(list, [t |-> now_time, ec |-> IF ~pm THEN ec ELSE NullExeContext])
    ELSE list

\* mutant: the dropped sample is not counted
compute_ws_dropped_uncounted ==
  [ws_at_time |-> ws_at_time, drop_samples |-> drop_samples,
   next_user_time_idx |-> next_user_time_idx,
   ws_context_list |-> ws_context_list,
   pd_data |-> pd_data, pd_insn |-> pd_insn, info |-> FALSE]

\* compute_ws when the allocation of the sample record fails
compute_ws_dropped ==
  [ws_at_time |-> ws_at_time, drop_samples |-> drop_samples + 1,
   next_user_time_idx |-> next_user_time_idx,
   ws_context_list |-> ws_context_list,
   pd_data |-> pd_data, pd_insn |-> pd_insn, info |-> FALSE]

\* mutant: the peak stage of the earlier revision (src/ws_main.c:1452),
\* peak_detect(&pd_data, ..) || peak_detect(&pd_insn, ..), which skips the
\* instruction detector when the data detector returns true
compute_ws_shortcircuit(now_time, htd, hti, pm, alloc_ws, alloc_ctx, ec) ==
  LET ws == [t |-> now_time,
             pages_insn |-> recently_used_pages(hti, now_time, clo_tau),
             pages_data |-> recently_used_pages(htd, now_time, clo_tau)]
      user_hit == next_user_time_idx >= 0
                  /\ now_time >= ws_info_times[next_user_time_idx + 1]
      list1 == IF user_hit
                 THEN record_sample_info(ws_context_list, now_time, pm, alloc_ctx, ec)
                 ELSE ws_context_list
      idx1 == IF user_hit
                THEN advance_cursor(ws_info_times, next_user_time_idx, now_time)
                ELSE next_user_time_idx
      have_info == user_hit
  IN IF ~alloc_ws
       THEN compute_ws_dropped
       ELSE IF ~clo_peakdetect
       THEN [ws_at_time |-> Append(ws_at_time, ws), drop_samples |-> drop_samples,
             next_user_time_idx |-> idx1,
             ws_context_list |-> list1,
             pd_data |-> pd_data, pd_insn |-> pd_insn, info |-> have_info]
       ELSE CHOOSE r \in
              { [ws_at_time |-> Append(ws_at_time, ws), drop_samples |-> drop_samples,
                 next_user_time_idx |-> idx1,
                 ws_context_list |-> IF ~have_info /\ (rd.ret \/ ri.ret)
                                       THEN record_sample_info(list1, now_time, pm, alloc_ctx, ec)
                                       ELSE list1,
                 pd_data |-> rd.pd, pd_insn |-> IF rd.ret THEN pd_insn ELSE ri.pd,
                 info |-> have_info \/ rd.ret \/ ri.ret] :
                rd \in {peak_detect(pd_data, ws.pages_data)},
                ri \in {peak_detect(pd_insn, ws.pages_insn)} } : TRUE

\* mutant: a peak records a context also when one was recorded for a user time
compute_ws_both(now_time, htd, hti, pm, alloc_ws, alloc_ctx, ec) ==
  LET ws == [t |-> now_time,
             pages_insn |-> recently_used_pages(hti, now_time, clo_tau),
             pages_data |-> recently_used_pages(htd, now_time, clo_tau)]
      user_hit == next_user_time_idx >= 0
                  /\ now_time >= ws_info_times[next_user_time_idx + 1]
      list1 == IF user_hit
                 THEN record_sample_info(ws_context_list, now_time, pm, alloc_ctx, ec)
                 ELSE ws_context_list
      idx1 == IF user_hit
                THEN advance_cursor(ws_info_times, next_user_time_idx, now_time)
                ELSE next_user_time_idx
      have_info == user_hit
  IN IF ~alloc_ws
       THEN compute_ws_dropped
       ELSE IF ~clo_peakdetect
       THEN [ws_at_time |-> Append(ws_at_time, ws), drop_samples |-> drop_samples,
             next_user_time_idx |-> idx1,
             ws_context_list |-> list1,
             pd_data |-> pd_data, pd_insn |-> pd_insn, info |-> have_info]
       ELSE CHOOSE r \in
              { [ws_at_time |-> Append(ws_at_time, ws), drop_samples |-> drop_samples,
                 next_user_time_idx |-> idx1,
                 ws_context_list |-> IF rd.ret \/ ri.ret
                                       THEN record_sample_info(list1, now_time, pm, alloc_ctx, ec)
                                       ELSE list1,
                 pd_data |-> rd.pd, pd_insn |-> ri.pd,
                 info |-> have_info \/ rd.ret \/ ri.ret] :
                rd \in {peak_detect(pd_data, ws.pages_data)},
                ri \in {peak_detect(pd_insn, ws.pages_insn)} } : TRUE

\* compute_ws on the tables htd/hti.  alloc_ws and alloc_ctx say whether the
\* two allocations succeed, ec is the context VG_(record_ExeContext) returns.
compute_ws(now_time, htd, hti, pm, alloc_ws, alloc_ctx, ec) ==
  LET ws == [t |-> now_time,
             pages_insn |-> recently_used_pages(hti, now_time, clo_tau),
             pages_data |-> recently_used_pages(htd, now_time, clo_tau)]
      user_hit == next_user_time_idx >= 0
                  /\ now_time >= ws_info_times[next_user_time_idx + 1]
      list1 == IF user_hit
                 THEN record_sample_info(ws_context_list, now_time, pm, alloc_ctx, ec)
                 ELSE ws_context_list
      idx1 == IF user_hit
                THEN advance_cursor(ws_info_times, next_user_time_idx, now_time)
                ELSE next_user_time_idx
      have_info == user_hit
  IN IF ~alloc_ws
       THEN compute_ws_dropped
       ELSE IF ~clo_peakdetect
       THEN [ws_at_time |-> Append(ws_at_time, ws), drop_samples |-> drop_samples,
             next_user_time_idx |-> idx1,
             ws_context_list |-> list1,
             pd_data |-> pd_data, pd_insn |-> pd_insn, info |-> have_info]
       ELSE CHOOSE r \in
              { [ws_at_time |-> Append(ws_at_time, ws), drop_samples |-> drop_samples,
                 next_user_time_idx |-> idx1,
                 ws_context_list |-> IF ~have_info /\ (rd.ret \/ ri.ret)
                                       THEN record_sample_info(list1, now_time, pm, alloc_ctx, ec)
                                       ELSE list1,
                 pd_data |-> rd.pd, pd_insn |-> ri.pd,
                 info |-> have_info \/ rd.ret \/ ri.ret] :
                rd \in {peak_detect(pd_data, ws.pages_data)},
                ri \in {peak_detect(pd_insn, ws.pages_insn)} } : TRUE

\* mutant: the next sample is scheduled from the previous schedule, not from now
maybe_compute_ws_periodic(htd, hti, alloc_ws, alloc_ctx, ec) ==
  LET now_time == get_time(guest_instrs_executed)
  IN IF now_time < earliest_possible_time_of_next_ws
       THEN [tick |-> FALSE, earliest |-> earliest_possible_time_of_next_ws,
             ws_at_time |-> ws_at_time, drop_samples |-> drop_samples,
             next_user_time_idx |-> next_user_time_idx,
             ws_context_list |-> ws_context_list,
             pd_data |-> pd_data, pd_insn |-> pd_insn, info |-> FALSE]
       ELSE [tick |-> TRUE, earliest |-> earliest_possible_time_of_next_ws + clo_every]
            @@ compute_ws(now_time, htd, hti, postmortem, alloc_ws, alloc_ctx, ec)

\* maybe_compute_ws, called at the end of pageaccess
maybe_compute_ws(htd, hti, alloc_ws, alloc_ctx, ec) ==
  LET now_time == get_time(guest_instrs_executed)
  IN IF now_time < earliest_possible_time_of_next_ws
       THEN [tick |-> FALSE, earliest |-> earliest_possible_time_of_next_ws,
             ws_at_time |-> ws_at_time, drop_samples |-> drop_samples,
             next_user_time_idx |-> next_user_time_idx,
             ws_context_list |-> ws_context_list,
             pd_data |-> pd_data, pd_insn |-> pd_insn, info |-> FALSE]
       ELSE [tick |-> TRUE, earliest |-> now_time + clo_every]
            @@ compute_ws(now_time, htd, hti, postmortem, alloc_ws, alloc_ctx, ec)

\* ------------------------------------------------------------------------
\* unique contexts (ht_ec2sampleinfo: ECU of the context -> SampleInfo)
\* ------------------------------------------------------------------------
EmptyInfoTable == [e \in {} |-> [id |-> 0, cnt |-> 0]]

\* mutant: the id is the index of the first occurrence in the list
RECURSIVE compute_sample_info_index(_, _, _, _)
compute_sample_info_index(xa, i, ht, num_unique) ==
  IF i > Len(xa) THEN [ht |-> ht, num_unique |-> num_unique]
  ELSE LET ecid == xa[i].ec
       IN IF ecid \notin DOMAIN ht
            THEN compute_sample_info_index(xa, i + 1,
                   [e \in DOMAIN ht \cup {ecid} |->
                      IF e = ecid THEN [id |-> i - 1, cnt |-> 1] ELSE ht[e]],
                   num_unique + 1)
            ELSE compute_sample_info_index(xa, i + 1,
                   [ht EXCEPT ![ecid].cnt = @ + 1], num_unique)

\* mutant: a context that is in the table already is not counted again
RECURSIVE compute_sample_info_once(_, _, _, _)
compute_sample_info_once(xa, i, ht, num_unique) ==
  IF i > Len(xa) THEN [ht |-> ht, num_unique |-> num_unique]
  ELSE LET ecid == xa[i].ec
       IN IF ecid \notin DOMAIN ht
            THEN compute_sample_info_once(xa, i + 1,
                   [e \in DOMAIN ht \cup {ecid} |->
                      IF e = ecid THEN [id |-> Cardinality(DOMAIN ht), cnt |-> 1] ELSE ht[e]],
                   num_unique + 1)
            ELSE compute_sample_info_once(xa, i + 1, ht, num_unique)

\* the loop of compute_sample_info from index i (1-based) on, over the table
\* ht, with num_unique new contexts found so far
RECURSIVE compute_sample_info(_, _, _, _)
compute_sample_info(xa, i, ht, num_unique) ==
  IF i > Len(xa) THEN [ht |-> ht, num_unique |-> num_unique]
  ELSE LET ecid == xa[i].ec
       IN IF ecid \notin DOMAIN ht
            THEN compute_sample_info(xa, i + 1,
                   [e \in DOMAIN ht \cup {ecid} |->
                      IF e = ecid THEN [id |-> Cardinality(DOMAIN ht), cnt |-> 1] ELSE ht[e]],
                   num_unique + 1)
            ELSE compute_sample_info(xa, i + 1,
                   [ht EXCEPT ![ecid].cnt = @ + 1], num_unique)

\* mutant: the pass starts from an empty table
report_fresh(fp_ok, xa) ==
  IF fp_ok
    THEN \E r \in {compute_sample_info(xa, 1, EmptyInfoTable, 0)} :
           /\ ht_ec2sampleinfo' = r.ht
           /\ ninfo' = r.num_unique
           /\ info_runs' = info_runs + 1
    ELSE UNCHANGED report_vars

\* the part of ws_fini after the forced sample: nothing when the output file
\* cannot be opened, else compute_sample_info over the context list xa
report(fp_ok, xa) ==
  IF fp_ok
    THEN \E r \in {compute_sample_info(xa, 1, ht_ec2sampleinfo, 0)} :
           /\ ht_ec2sampleinfo' = r.ht
           /\ ninfo' = r.num_unique
           /\ info_runs' = info_runs + 1
    ELSE UNCHANGED report_vars

\* ------------------------------------------------------------------------
\* the output file
\* ------------------------------------------------------------------------
clo_listpages == TRUE      \* the runs of the model list the pages (--ws-list-pages=yes)

NoOutput ==
  [opened |-> FALSE, code_pages |-> <<>>, data_pages |-> <<>>, rows |-> <<>>,
   avg_i |-> [num |-> 0, den |-> 1], avg_d |-> [num |-> 0, den |-> 1],
   peak_i |-> 0, peak_d |-> 0, lookup_failed |-> FALSE, sample_info |-> <<>>]

RECURSIVE Perms(_)
Perms(S) ==
  IF S = {} THEN {<<>>}
  ELSE UNION {{<<x>> \o q : q \in Perms(S \ {x})} : x \in S}

\* the nodes of a table in the orders in which VG_(HT_Next) may deliver them
HT_iter(ht) ==
  {[i \in 1 .. Len(q) |-> [key |-> q[i], node |-> ht[q[i]]]] : q \in Perms(DOMAIN ht)}

map_pageaddr_compare(a1, a2) ==
  IF a1.node.count > a2.node.count THEN -1
  ELSE IF a1.node.count < a2.node.count THEN 1 ELSE 0

map_context2sampleinfo_compare(a1, a2) ==
  IF a1.node.id > a2.node.id THEN 1
  ELSE IF a1.node.id < a2.node.id THEN -1 ELSE 0

\* VG_(ssort) of the array xa; cmp[<<a, b>>] is the value of the comparison
\* function for the elements a and b
RECURSIVE ssort(_, _)
ssort(xa, cmp) ==
  IF Len(xa) <= 1 THEN xa
  ELSE LET rest == ssort(Tail(xa), cmp)
           lo == SelectSeq(rest, LAMBDA x : cmp[<<x, Head(xa)>>] < 0)
           hi == SelectSeq(rest, LAMBDA x : cmp[<<x, Head(xa)>>] >= 0)
       IN lo \o <<Head(xa)>> \o hi

\* mutant: the pages are listed in the order of the iteration
print_page_list_unsorted(ht) ==
  HT_iter(ht)

\* the listings print_page_list can write for the table ht
print_page_list(ht) ==
  {ssort(res, [c \in {res[i] : i \in DOMAIN res} \X {res[i] : i \in DOMAIN res}
                 |-> map_pageaddr_compare(c[1], c[2])]) : res \in HT_iter(ht)}

\* the listings print_sample_info can write for the table ht
print_sample_info(ht) ==
  {ssort(res, [c \in {res[i] : i \in DOMAIN res} \X {res[i] : i \in DOMAIN res}
                 |-> map_context2sampleinfo_compare(c[1], c[2])]) : res \in HT_iter(ht)}

\* the loop over the samples of print_ws_over_time, from sample i on (i counts
\* from 1).  next_info is the index of the context looked for (0: NULL), w
\* collects the rows and the statistics.
RECURSIVE ws_rows(_, _, _, _, _, _)
ws_rows(xa, ht_sampleinfo, list, i, next_info, w) ==
  IF i > Len(xa) THEN w
  ELSE LET t == xa[i].t
           pi == xa[i].pages_insn
           pd == xa[i].pages_data
           hit == next_info # 0 /\ list[next_info].t = t
           found == hit /\ list[next_info].ec \in DOMAIN ht_sampleinfo
           strinfo == IF DOMAIN ht_sampleinfo = {} THEN "none"
                      ELSE IF found THEN ht_sampleinfo[list[next_info].ec].id
                      ELSE "-"
       IN ws_rows(xa, ht_sampleinfo, list, i + 1,
                  IF DOMAIN ht_sampleinfo # {} /\ hit
                    THEN (IF next_info < Len(list) THEN next_info + 1 ELSE 0)
                    ELSE next_info,
                  [rows |-> Append(w.rows, [t |-> t, pi |-> pi, pd |-> pd, info |-> strinfo]),
                   sum_i |-> w.sum_i + pi, sum_d |-> w.sum_d + pd,
                   peak_i |-> IF pi > w.peak_i THEN pi ELSE w.peak_i,
                   peak_d |-> IF pd > w.peak_d THEN pd ELSE w.peak_d,
                   lookup_failed |-> w.lookup_failed
                                       \/ (DOMAIN ht_sampleinfo # {} /\ hit /\ ~found)])

\* print_ws_over_time: the rows, the peaks and the averages; an average is
\* the quotient num / den of the float division
print_ws_over_time(xa, ht_sampleinfo, list) ==
  LET w == ws_rows(xa, ht_sampleinfo, list, 1, IF Len(list) > 0 THEN 1 ELSE 0,
                   [rows |-> <<>>, sum_i |-> 0, sum_d |-> 0, peak_i |-> 0, peak_d |-> 0,
                    lookup_failed |-> FALSE])
      num_t == Len(xa)
  IN [rows |-> w.rows, peak_i |-> w.peak_i, peak_d |-> w.peak_d,
      lookup_failed |-> w.lookup_failed,
      avg_i |-> [num |-> w.sum_i, den |-> num_t - 1],
      avg_d |-> [num |-> w.sum_d, den |-> num_t - 1]]

\* the tables and arrays ws_fini releases, in the order of the calls
Cleanup ==
  <<"ht_data", "ht_insn", "ht_ec2sampleinfo", "ws_at_time", "ws_context_list", "ws_info_times">>

\* the part of ws_fini from VG_(fopen) on: nothing when the output file cannot
\* be opened, else the listings and the cleanup.  xa is the sample sequence
\* and list the context list after the forced sample.
write_results(fp_ok, xa, list) ==
  IF fp_ok
    THEN \E ht \in {compute_sample_info(list, 1, ht_ec2sampleinfo, 0).ht} :
         \E cp \in (IF clo_listpages THEN print_page_list(ht_insn) ELSE {<<>>}),
            dp \in (IF clo_listpages THEN print_page_list(ht_data) ELSE {<<>>}),
            si \in print_sample_info(ht),
            w \in {print_ws_over_time(xa, ht, list)} :
           /\ out' = [opened |-> TRUE, code_pages |-> cp, data_pages |-> dp,
                      rows |-> w.rows, avg_i |-> w.avg_i, avg_d |-> w.avg_d,
                      peak_i |-> w.peak_i, peak_d |-> w.peak_d,
                      lookup_failed |-> w.lookup_failed, sample_info |-> si]
           /\ freed' = freed \o Cleanup
    ELSE UNCHANGED file_vars

\* ------------------------------------------------------------------------
\* instrumentation of a block: the event list (ws_main.c 216-252, 553-688)
\* ------------------------------------------------------------------------
\* capacity of the event list
N_EVENTS == 4

\* the IRAtoms (temporaries, constants) used as addresses and guards of a block
MaxAtom == 2
\* the access sizes of a block
MaxDSize == 2
\* the statements of the block after its preamble
MaxStmts == 5

\* a NULL IRAtom*: the guard of an unguarded event
NullAtom == 0

\* the zeroed static array events[N_EVENTS]
NoEvents ==
  [i \in 0 .. N_EVENTS - 1 |-> [ekind |-> "none", addr |-> NullAtom, size |-> 0, guard |-> NullAtom]]

\* a statement of the block or of the block produced
IRStmt(tag, aux, addr, size, guard, n) ==
  [tag |-> tag, aux |-> aux, addr |-> addr, size |-> size, guard |-> guard, n |-> n]

\* the call of trace_instr or trace_data that flushEvents builds for event e
IRStmt_Dirty(e) ==
  IRStmt("helper",
         IF e.ekind = "Event_Ir" THEN "trace_instr" ELSE "trace_data",
         e.addr, e.size, e.guard, 0)

\* addStmtToIRSB(sb, st)
addStmtToIRSB(b, st) == [b EXCEPT !.sb = Append(@, st)]

\* flushEvents(sb): one helper call per event in the order of the list, then
\* the list is empty
flushEvents(b) ==
  [b EXCEPT !.sb = @ \o [i \in 1 .. b.events_used |-> IRStmt_Dirty(b.events[i - 1])],
            !.events_used = 0]

\* addEvent_Ir(sb, iaddr, isize)
addEvent_Ir(b, iaddr, isize) ==
  LET f == IF b.events_used = N_EVENTS THEN flushEvents(b) ELSE b
  IN  IF f.events_used >= 0 /\ f.events_used < N_EVENTS
      THEN [f EXCEPT !.events[f.events_used] =
                        [ekind |-> "Event_Ir", addr |-> iaddr, size |-> isize,
                         guard |-> NullAtom],
                     !.events_used = @ + 1]
      ELSE [f EXCEPT !.ok = FALSE]

\* addEvent_Dr_guarded with the flush test off by one
addEvent_Dr_guarded_late(b, daddr, dsize, guard) ==
  LET f == IF b.events_used > N_EVENTS THEN flushEvents(b) ELSE b
  IN  IF f.events_used >= 0 /\ f.events_used < N_EVENTS
      THEN [f EXCEPT !.events[f.events_used] =
                        [ekind |-> "Event_Dr", addr |-> daddr, size |-> dsize,
                         guard |-> guard],
                     !.events_used = @ + 1]
      ELSE [f EXCEPT !.ok = FALSE]

\* addEvent_Dr_guarded(sb, daddr, dsize, guard)
addEvent_Dr_guarded(b, daddr, dsize, guard) ==
  LET f == IF b.events_used = N_EVENTS THEN flushEvents(b) ELSE b
  IN  IF f.events_used >= 0 /\ f.events_used < N_EVENTS
      THEN [f EXCEPT !.events[f.events_used] =
                        [ekind |-> "Event_Dr", addr |-> daddr, size |-> dsize,
                         guard |-> guard],
                     !.events_used = @ + 1]
      ELSE [f EXCEPT !.ok = FALSE]

\* addEvent_Dr(sb, daddr, dsize)
addEvent_Dr(b, daddr, dsize) == addEvent_Dr_guarded(b, daddr, dsize, NullAtom)

\* addEvent_Dw_guarded(sb, daddr, dsize, guard)
addEvent_Dw_guarded(b, daddr, dsize, guard) ==
  LET f == IF b.events_used = N_EVENTS THEN flushEvents(b) ELSE b
  IN  IF f.events_used >= 0 /\ f.events_used < N_EVENTS
      THEN [f EXCEPT !.events[f.events_used] =
                        [ekind |-> "Event_Dw", addr |-> daddr, size |-> dsize,
                         guard |-> guard],
                     !.events_used = @ + 1]
      ELSE [f EXCEPT !.ok = FALSE]

\* addEvent_Dw that merges into any preceding read of the address
addEvent_Dw_anyread(b, daddr, dsize) ==
  IF /\ b.events_used > 0
     /\ b.events[b.events_used - 1].ekind = "Event_Dr"
     /\ b.events[b.events_used - 1].addr = daddr
  THEN [b EXCEPT !.events[b.events_used - 1].ekind = "Event_Dm"]
  ELSE LET f == IF b.events_used = N_EVENTS THEN flushEvents(b) ELSE b
       IN  IF f.events_used >= 0 /\ f.events_used < N_EVENTS
           THEN [f EXCEPT !.events[f.events_used] =
                             [ekind |-> "Event_Dw", addr |-> daddr, size |-> dsize,
                              guard |-> NullAtom],
                          !.events_used = @ + 1]
           ELSE [f EXCEPT !.ok = FALSE]

\* addEvent_Dw(sb, daddr, dsize): merged into the preceding event when that is
\* an unguarded read of the same size and the same address atom
addEvent_Dw(b, daddr, dsize) ==
  IF /\ b.events_used > 0
     /\ b.events[b.events_used - 1].ekind = "Event_Dr"
     /\ b.events[b.events_used - 1].size = dsize
     /\ b.events[b.events_used - 1].guard = NullAtom
     /\ b.events[b.events_used - 1].addr = daddr
  THEN [b EXCEPT !.events[b.events_used - 1].ekind = "Event_Dm"]
  ELSE LET f == IF b.events_used = N_EVENTS THEN flushEvents(b) ELSE b
       IN  IF f.events_used >= 0 /\ f.events_used < N_EVENTS
           THEN [f EXCEPT !.events[f.events_used] =
                             [ekind |-> "Event_Dw", addr |-> daddr, size |-> dsize,
                              guard |-> NullAtom],
                          !.events_used = @ + 1]
           ELSE [f EXCEPT !.ok = FALSE]

\* add_counter_update(sbOut, n): the load, add and store that increase
\* guest_instrs_executed by n, as one statement
add_counter_update(b, n) ==
  addStmtToIRSB(b, IRStmt("counter_update", "-", NullAtom, 0, NullAtom, n))

\* the part of ws_instrument's Ist_Exit case before the statement is copied,
\* without the flush
ws_instrument_exit_noflush(b) ==
  IF b.ninsn > 0 THEN [add_counter_update(b, b.ninsn) EXCEPT !.ninsn = 0] ELSE b

\* the part of ws_instrument's Ist_Exit case before the statement is copied,
\* without the reset of ninsn
ws_instrument_exit_noreset(b) ==
  flushEvents(IF b.ninsn > 0 THEN add_counter_update(b, b.ninsn) ELSE b)

\* the part of ws_instrument's Ist_Exit case before the statement is copied
ws_instrument_exit(b) ==
  flushEvents(IF b.ninsn > 0
                THEN [add_counter_update(b, b.ninsn) EXCEPT !.ninsn = 0]
                ELSE b)

\* one iteration of the loop of ws_instrument, for statement st
ws_instrument_stmt(b, st) ==
  LET c == CASE st.tag \in {"Ist_Put", "Ist_WrTmp"} -> b
             [] st.tag = "Ist_IMark" ->
                  addEvent_Ir([b EXCEPT !.ninsn = @ + 1], st.addr, st.size)
             [] st.tag = "Ist_WrTmp_Load" -> addEvent_Dr(b, st.addr, st.size)
             [] st.tag = "Ist_Store" -> addEvent_Dw(b, st.addr, st.size)
             [] st.tag = "Ist_StoreG" ->
                  addEvent_Dw_guarded(b, st.addr, st.size, st.guard)
             [] st.tag = "Ist_LoadG" ->
                  addEvent_Dr_guarded(b, st.addr, st.size, st.guard)
             [] st.tag = "Ist_Dirty" ->
                  IF st.aux # "Ifx_None"
                  THEN LET r == IF st.aux \in {"Ifx_Read", "Ifx_Modify"}
                                  THEN addEvent_Dr(b, st.addr, st.size) ELSE b
                       IN  IF st.aux \in {"Ifx_Write", "Ifx_Modify"}
                             THEN addEvent_Dw(r, st.addr, st.size) ELSE r
                  ELSE b
             [] st.tag = "Ist_CAS" ->
                  addEvent_Dw(addEvent_Dr(b, st.addr, st.size), st.addr, st.size)
             [] st.tag = "Ist_LLSC" ->
                  IF st.aux = "LL"
                    THEN flushEvents(addEvent_Dr(b, st.addr, st.size))
                    ELSE addEvent_Dw(b, st.addr, st.size)
             [] st.tag = "Ist_Exit" -> ws_instrument_exit(b)
  IN  addStmtToIRSB(c, st)

\* the end of ws_instrument, after the loop
ws_instrument_end(b) ==
  flushEvents(IF b.ninsn > 0 THEN add_counter_update(b, b.ninsn) ELSE b)

\* ------------------------------------------------------------------------
\* the test workload tests/pageramp/pageramp.c
\* ------------------------------------------------------------------------
\* largest number of pages of a ramp and largest number of cycles
MaxP == 2
MaxCycles == 2
\* the addresses mmap can return
MaxPages == 4
Pages == 1 .. MaxPages

\* a NULL page pointer
NullPage == 0

\* the test is not running
NoRamp == [maxp |-> 0, cycles |-> 0, c |-> 0, p |-> 0, at |-> "off"]

\* nothing has gone wrong and no page has been claimed
NoRampLog == [oob |-> FALSE, fault |-> FALSE, cycle |-> {}]

\* the loop position behind the touch_pages call at position r
ramp_advance(r) ==
  IF r.p + 1 < r.maxp THEN [r EXCEPT !.p = @ + 1, !.at = IF r.at = "up_touch" THEN "up" ELSE "down"]
  ELSE IF r.at = "up_touch" THEN [r EXCEPT !.p = 0, !.at = "down"]
  ELSE IF r.c + 1 < r.cycles THEN [r EXCEPT !.c = @ + 1, !.p = 0, !.at = "up"]
  ELSE [r EXCEPT !.at = "done"]

\* ------------------------------------------------------------------------
\* state machine
\* ------------------------------------------------------------------------
\* the command line that configures the run as c
CommandLine(c) ==
  << [opt |-> "--ws-every", val |-> c.every],
     [opt |-> "--ws-tau", val |-> c.tau],
     [opt |-> "--ws-peak-detect", val |-> c.pk],
     [opt |-> "--ws-peak-window", val |-> c.window],
     [opt |-> "--ws-track-locality", val |-> c.loc],
     [opt |-> "--ws-info-at", val |-> SortedSeq(c.info)] >>

NoEv == [op |-> "init", tick |-> FALSE, alloc_ws |-> FALSE, info |-> FALSE, alloc_ctx |-> FALSE]

\* the state after ws_pre_clo_init, option processing and ws_post_clo_init
Init ==
  /\ clo_pagesize = 2^PageBits
  /\ \E c \in Configs :
       /\ clo_every = c.every
       /\ clo_tau = c.tau
       /\ clo_peakdetect = c.pk
       /\ clo_peakwindow = c.window
       /\ clo_localitytr = c.loc
       /\ ws_info_times = SortedSeq(c.info)
       /\ clo_info_at = SortedSeq(c.info)
       /\ args = CommandLine(c)
  /\ next_user_time_idx = IF Len(ws_info_times) > 0 THEN 0 ELSE -1
  /\ postmortem = FALSE
  /\ guest_instrs_executed = 0
  /\ ht_data = EmptyTable
  /\ ht_insn = EmptyTable
  /\ lastaddr = 0
  /\ lastpage = NULL
  /\ earliest_possible_time_of_next_ws = 0
  /\ ws_at_time = <<>>
  /\ drop_samples = 0
  /\ ws_context_list = <<>>
  /\ pd_data = init_peakd(clo_peakwindow)
  /\ pd_insn = init_peakd(clo_peakwindow)
  /\ locality_insn = init_locality
  /\ locality_data = init_locality
  /\ phase = "running"
  /\ nacc = 0
  /\ ref_data = EmptyTable
  /\ ref_insn = EmptyTable
  /\ ticks = 0
  /\ ev = NoEv
  /\ ht_ec2sampleinfo = EmptyInfoTable
  /\ ninfo = 0
  /\ info_runs = 0
  /\ pk_log = <<>>
  /\ addr_log = <<>>
  /\ events = NoEvents
  /\ events_used = 0
  /\ ninsn = 0
  /\ sbOut = <<>>
  /\ pt = [num |-> 0, tab |-> <<>>]
  /\ mapped = {}
  /\ ramp = NoRamp
  /\ ramp_log = NoRampLog
  /\ out = NoOutput
  /\ freed = <<>>

\* the body shared by trace_data and trace_instr
Trace(tab, addr, alloc_ws, alloc_ctx, ec) ==
  /\ phase = "running"
  /\ nacc < MaxAcc
  /\ \E now \in {get_time(guest_instrs_executed)}, pa \in {pageaddr(clo_pagesize, addr)} :
     \E a \in {pageaccess(pa, tab, ht_data, ht_insn, lastaddr, lastpage, now)} :
     \E m \in {maybe_compute_ws(a.ht_data, a.ht_insn, alloc_ws, alloc_ctx, ec)} :
        IF a.null_deref
          THEN /\ phase' = "crashed"
               /\ ev' = [NoEv EXCEPT !.op = "null_deref"]
               /\ UNCHANGED <<ht_data, ht_insn, lastaddr, lastpage, nacc,
                              earliest_possible_time_of_next_ws, ws_at_time, drop_samples,
                              next_user_time_idx, ws_context_list, pd_data, pd_insn,
                              locality_data, locality_insn, ref_data, ref_insn, ticks>>
          ELSE /\ ht_data' = a.ht_data
               /\ ht_insn' = a.ht_insn
               /\ lastaddr' = a.lastaddr
               /\ lastpage' = a.lastpage
               /\ earliest_possible_time_of_next_ws' = m.earliest
               /\ ws_at_time' = m.ws_at_time
               /\ drop_samples' = m.drop_samples
               /\ next_user_time_idx' = m.next_user_time_idx
               /\ ws_context_list' = m.ws_context_list
               /\ pd_data' = m.pd_data
               /\ pd_insn' = m.pd_insn
               /\ locality_data' = IF tab = "data" /\ clo_localitytr
                                     THEN track_locality(locality_data, addr) ELSE locality_data
               /\ locality_insn' = IF tab = "insn" /\ clo_localitytr
                                     THEN track_locality(locality_insn, addr) ELSE locality_insn
               /\ ref_data' = IF tab = "data" THEN pageaccess_uncached(ref_data, pa, now) ELSE ref_data
               /\ ref_insn' = IF tab = "insn" THEN pageaccess_uncached(ref_insn, pa, now) ELSE ref_insn
               /\ ticks' = IF m.tick THEN ticks + 1 ELSE ticks
               /\ nacc' = nacc + 1
               /\ ev' = [op |-> tab, tick |-> m.tick, alloc_ws |-> m.tick /\ alloc_ws,
                         info |-> m.info, alloc_ctx |-> m.info /\ alloc_ctx]
               /\ phase' = phase
  /\ UNCHANGED <<config_vars, ramp_vars, instr_vars, postmortem, guest_instrs_executed, report_vars, file_vars, pk_log, addr_log>>

trace_data ==
  \E addr \in Addrs, alloc_ws \in BOOLEAN, alloc_ctx \in BOOLEAN, ec \in ExeContexts :
    Trace("data", addr, alloc_ws, alloc_ctx, ec)

trace_instr ==
  \E addr \in Addrs, alloc_ws \in BOOLEAN, alloc_ctx \in BOOLEAN, ec \in ExeContexts :
    Trace("insn", addr, alloc_ws, alloc_ctx, ec)

\* the IR emitted by add_counter_update: guest_instrs_executed += n
counter_update ==
  \E n \in 1 .. MaxBatch :
    /\ phase = "running"
    /\ guest_instrs_executed + n <= MaxTime
    /\ guest_instrs_executed' = guest_instrs_executed + n
    /\ ev' = [NoEv EXCEPT !.op = "counter"]
    /\ UNCHANGED <<config_vars, ramp_vars, instr_vars, report_vars, file_vars, pk_log, addr_log, next_user_time_idx, postmortem, ht_data, ht_insn, lastaddr,
                   lastpage, earliest_possible_time_of_next_ws, ws_at_time, drop_samples,
                   ws_context_list, pd_data, pd_insn, locality_insn, locality_data,
                   phase, nacc, ref_data, ref_insn, ticks>>

\* mutant: the last sample obeys the cadence of maybe_compute_ws
ws_fini_cadence ==
  \E alloc_ws \in BOOLEAN, alloc_ctx \in BOOLEAN, fp_ok \in BOOLEAN :
    \E m \in {maybe_compute_ws(ht_data, ht_insn, alloc_ws, alloc_ctx, NullExeContext)} :
       /\ phase = "running"
       /\ postmortem' = TRUE
       /\ ws_at_time' = m.ws_at_time
       /\ drop_samples' = m.drop_samples
       /\ next_user_time_idx' = m.next_user_time_idx
       /\ ws_context_list' = m.ws_context_list
       /\ pd_data' = m.pd_data
       /\ pd_insn' = m.pd_insn
       /\ ticks' = IF m.tick THEN ticks + 1 ELSE ticks
       /\ ev' = [op |-> "fini", tick |-> m.tick, alloc_ws |-> m.tick /\ alloc_ws,
                 info |-> m.info, alloc_ctx |-> m.info /\ alloc_ctx]
       /\ phase' = "finished"
       /\ report(fp_ok, ws_context_list')
       /\ write_results(fp_ok, ws_at_time', ws_context_list')
       /\ UNCHANGED <<config_vars, ramp_vars, instr_vars, guest_instrs_executed, ht_data, ht_insn, lastaddr, lastpage,
                      earliest_possible_time_of_next_ws, locality_insn, locality_data,
                      nacc, ref_data, ref_insn, pk_log, addr_log>>

\* mutant: postmortem is set after the forced sample, not before it
ws_fini_live ==
  \E alloc_ws \in BOOLEAN, alloc_ctx \in BOOLEAN, fp_ok \in BOOLEAN, ec \in ExeContexts :
    \E c \in {compute_ws(get_time(guest_instrs_executed), ht_data, ht_insn, postmortem,
                           alloc_ws, alloc_ctx, ec)} :
       /\ phase = "running"
       /\ postmortem' = TRUE
       /\ ws_at_time' = c.ws_at_time
       /\ drop_samples' = c.drop_samples
       /\ next_user_time_idx' = c.next_user_time_idx
       /\ ws_context_list' = c.ws_context_list
       /\ pd_data' = c.pd_data
       /\ pd_insn' = c.pd_insn
       /\ ticks' = ticks + 1
       /\ ev' = [op |-> "fini", tick |-> TRUE, alloc_ws |-> alloc_ws,
                 info |-> c.info, alloc_ctx |-> c.info /\ alloc_ctx]
       /\ phase' = "finished"
       /\ report(fp_ok, ws_context_list')
       /\ write_results(fp_ok, ws_at_time', ws_context_list')
       /\ UNCHANGED <<config_vars, ramp_vars, instr_vars, guest_instrs_executed, ht_data, ht_insn, lastaddr, lastpage,
                      earliest_possible_time_of_next_ws, locality_insn, locality_data,
                      nacc, ref_data, ref_insn, pk_log, addr_log>>

\* ws_fini: the forced last sample, then (when the output file could be
\* opened, fp_ok) the report with its pass over the context list
ws_fini ==
  \E alloc_ws \in BOOLEAN, alloc_ctx \in BOOLEAN, fp_ok \in BOOLEAN :
    \E c \in {compute_ws(get_time(guest_instrs_executed), ht_data, ht_insn, TRUE,
                           alloc_ws, alloc_ctx, NullExeContext)} :
       /\ phase = "running"
       /\ postmortem' = TRUE
       /\ ws_at_time' = c.ws_at_time
       /\ drop_samples' = c.drop_samples
       /\ next_user_time_idx' = c.next_user_time_idx
       /\ ws_context_list' = c.ws_context_list
       /\ pd_data' = c.pd_data
       /\ pd_insn' = c.pd_insn
       /\ ticks' = ticks + 1
       /\ ev' = [op |-> "fini", tick |-> TRUE, alloc_ws |-> alloc_ws,
                 info |-> c.info, alloc_ctx |-> c.info /\ alloc_ctx]
       /\ phase' = "finished"
       /\ report(fp_ok, ws_context_list')
       /\ write_results(fp_ok, ws_at_time', ws_context_list')
       /\ UNCHANGED <<config_vars, ramp_vars, instr_vars, guest_instrs_executed, ht_data, ht_insn, lastaddr, lastpage,
                      earliest_possible_time_of_next_ws, locality_insn, locality_data,
                      nacc, ref_data, ref_insn, pk_log, addr_log>>

Next == trace_data \/ trace_instr \/ counter_update \/ ws_fini

Spec == Init /\ [][Next]_vars

\* ------------------------------------------------------------------------
\* the peak detector on its own: a detector initialised by init_peakd with
\* the options --ws-peak-window and --ws-peak-thresh, fed sample after
\* sample as compute_ws feeds pd_data.  pk_log keeps, per call, the value y,
\* the sign computed in the call and the value returned.
\* ------------------------------------------------------------------------
PeakInit ==
  /\ clo_pagesize = 2^PageBits
  /\ clo_every = 1
  /\ clo_tau = 1
  /\ clo_peakdetect = TRUE
  /\ clo_localitytr = FALSE
  /\ clo_peakwindow \in 1 .. MaxWindow
  /\ ws_info_times = <<>>
  /\ next_user_time_idx = -1
  /\ postmortem = FALSE
  /\ guest_instrs_executed = 0
  /\ ht_data = EmptyTable
  /\ ht_insn = EmptyTable
  /\ lastaddr = 0
  /\ lastpage = NULL
  /\ earliest_possible_time_of_next_ws = 0
  /\ ws_at_time = <<>>
  /\ drop_samples = 0
  /\ ws_context_list = <<>>
  /\ \E tg \in PeakThreshs : pd_data = [init_peakd(clo_peakwindow) EXCEPT !.threshgain = tg]
  /\ pd_insn = init_peakd(clo_peakwindow)
  /\ locality_insn = init_locality
  /\ locality_data = init_locality
  /\ phase = "running"
  /\ nacc = 0
  /\ ref_data = EmptyTable
  /\ ref_insn = EmptyTable
  /\ ticks = 0
  /\ ev = NoEv
  /\ ht_ec2sampleinfo = EmptyInfoTable
  /\ ninfo = 0
  /\ info_runs = 0
  /\ pk_log = <<>>
  /\ addr_log = <<>>
  /\ events = NoEvents
  /\ events_used = 0
  /\ ninsn = 0
  /\ sbOut = <<>>
  /\ pt = [num |-> 0, tab |-> <<>>]
  /\ mapped = {}
  /\ ramp = NoRamp
  /\ ramp_log = NoRampLog
  /\ out = NoOutput
  /\ freed = <<>>
  /\ clo_info_at = <<>>
  /\ args = <<>>

\* one call peak_detect(&pd_data, y)
peak_detect_call ==
  \E y \in PeakInputs :
    /\ Len(pk_log) < MaxFeed
    /\ \E r \in {peak_detect(pd_data, y)}, pk \in {peak_sign(pd_data, y, peak_thresh(pd_data))} :
         /\ pd_data' = r.pd
         /\ pk_log' = Append(pk_log, [y |-> y, pk |-> pk, ret |-> r.ret])
    /\ UNCHANGED <<config_vars, ramp_vars, instr_vars, report_vars, file_vars, next_user_time_idx, postmortem,
                   guest_instrs_executed, ht_data, ht_insn, lastaddr, lastpage,
                   earliest_possible_time_of_next_ws, ws_at_time, drop_samples,
                   ws_context_list, pd_insn, locality_insn, locality_data,
                   phase, nacc, ref_data, ref_insn, ticks, ev, addr_log>>

PeakNext == peak_detect_call

PeakSpec == PeakInit /\ [][PeakNext]_vars

\* ------------------------------------------------------------------------
\* compute_sample_info on its own: a context list as record_sample_info
\* builds it (entry i recorded at time i by a running thread; the last one
\* possibly post mortem, by the forced sample), and the pass of ws_fini over
\* it, run up to MaxRuns times.
\* ------------------------------------------------------------------------
RECURSIVE ContextLists(_)
ContextLists(n) ==
  IF n = 0 THEN {<<>>}
  ELSE LET shorter == ContextLists(n - 1)
       IN shorter \cup
          { record_sample_info(l, Len(l) + 1, ec = NullExeContext, TRUE, ec) :
              l \in {x \in shorter : /\ Len(x) = n - 1
                                      /\ \A i \in 1 .. Len(x) : x[i].ec # NullExeContext},
              ec \in ExeContexts \cup {NullExeContext} }

InfoInit ==
  /\ clo_pagesize = 2^PageBits
  /\ clo_every = 1
  /\ clo_tau = 1
  /\ clo_peakdetect = FALSE
  /\ clo_localitytr = FALSE
  /\ clo_peakwindow = 1
  /\ ws_info_times = <<>>
  /\ next_user_time_idx = -1
  /\ postmortem = TRUE
  /\ guest_instrs_executed = MaxCtx
  /\ ht_data = EmptyTable
  /\ ht_insn = EmptyTable
  /\ lastaddr = 0
  /\ lastpage = NULL
  /\ earliest_possible_time_of_next_ws = 0
  /\ ws_at_time = <<>>
  /\ drop_samples = 0
  /\ ws_context_list \in ContextLists(MaxCtx)
  /\ pd_data = init_peakd(clo_peakwindow)
  /\ pd_insn = init_peakd(clo_peakwindow)
  /\ locality_insn = init_locality
  /\ locality_data = init_locality
  /\ phase = "finished"
  /\ nacc = 0
  /\ ref_data = EmptyTable
  /\ ref_insn = EmptyTable
  /\ ticks = 0
  /\ ev = NoEv
  /\ ht_ec2sampleinfo = EmptyInfoTable
  /\ ninfo = 0
  /\ info_runs = 0
  /\ pk_log = <<>>
  /\ addr_log = <<>>
  /\ events = NoEvents
  /\ events_used = 0
  /\ ninsn = 0
  /\ sbOut = <<>>
  /\ pt = [num |-> 0, tab |-> <<>>]
  /\ mapped = {}
  /\ ramp = NoRamp
  /\ ramp_log = NoRampLog
  /\ out = NoOutput
  /\ freed = <<>>
  /\ clo_info_at = <<>>
  /\ args = <<>>

\* one run of compute_sample_info(ws_context_list) as in ws_fini
compute_sample_info_call ==
  /\ info_runs < MaxRuns
  /\ report(TRUE, ws_context_list)
  /\ UNCHANGED <<config_vars, ramp_vars, instr_vars, file_vars, next_user_time_idx, postmortem,
                 guest_instrs_executed, ht_data, ht_insn, lastaddr, lastpage,
                 earliest_possible_time_of_next_ws, ws_at_time, drop_samples,
                 ws_context_list, pd_data, pd_insn, locality_insn, locality_data,
                 phase, nacc, ref_data, ref_insn, ticks, ev, pk_log, addr_log>>

InfoNext == compute_sample_info_call

InfoSpec == InfoInit /\ [][InfoNext]_vars

\* ------------------------------------------------------------------------
\* the locality tracker on its own: a tracker initialised by init_locality,
\* fed address after address as trace_data feeds locality_data with
\* --ws-track-locality=yes.
\* ------------------------------------------------------------------------
LocInit ==
  /\ clo_pagesize = 2^PageBits
  /\ clo_every = 1
  /\ clo_tau = 1
  /\ clo_peakdetect = FALSE
  /\ clo_localitytr = TRUE
  /\ clo_peakwindow = 1
  /\ ws_info_times = <<>>
  /\ next_user_time_idx = -1
  /\ postmortem = FALSE
  /\ guest_instrs_executed = 0
  /\ ht_data = EmptyTable
  /\ ht_insn = EmptyTable
  /\ lastaddr = 0
  /\ lastpage = NULL
  /\ earliest_possible_time_of_next_ws = 0
  /\ ws_at_time = <<>>
  /\ drop_samples = 0
  /\ ws_context_list = <<>>
  /\ pd_data = init_peakd(clo_peakwindow)
  /\ pd_insn = init_peakd(clo_peakwindow)
  /\ locality_insn = init_locality
  /\ locality_data = init_locality
  /\ phase = "running"
  /\ nacc = 0
  /\ ref_data = EmptyTable
  /\ ref_insn = EmptyTable
  /\ ticks = 0
  /\ ev = NoEv
  /\ ht_ec2sampleinfo = EmptyInfoTable
  /\ ninfo = 0
  /\ info_runs = 0
  /\ pk_log = <<>>
  /\ addr_log = <<>>
  /\ events = NoEvents
  /\ events_used = 0
  /\ ninsn = 0
  /\ sbOut = <<>>
  /\ pt = [num |-> 0, tab |-> <<>>]
  /\ mapped = {}
  /\ ramp = NoRamp
  /\ ramp_log = NoRampLog
  /\ out = NoOutput
  /\ freed = <<>>
  /\ clo_info_at = <<>>
  /\ args = <<>>

\* one call track_locality(&locality_data, addr)
track_locality_call ==
  \E addr \in 0 .. MaxAddr :
    /\ Len(addr_log) < MaxTrack
    /\ locality_data' = track_locality(locality_data, addr)
    /\ addr_log' = Append(addr_log, addr)
    /\ UNCHANGED <<config_vars, ramp_vars, instr_vars, report_vars, file_vars, next_user_time_idx, postmortem,
                   guest_instrs_executed, ht_data, ht_insn, lastaddr, lastpage,
                   earliest_possible_time_of_next_ws, ws_at_time, drop_samples,
                   ws_context_list, pd_data, pd_insn, locality_insn,
                   phase, nacc, ref_data, ref_insn, ticks, ev, pk_log>>

LocNext == track_locality_call

LocSpec == LocInit /\ [][LocNext]_vars

\* ------------------------------------------------------------------------
\* pageaddr on its own: a page size given with --ws-pagesize and calls of
\* pageaddr as trace_data makes them; lastaddr holds the result of the last
\* call, addr_log the addresses.
\* ------------------------------------------------------------------------
PageInit ==
  /\ clo_pagesize \in {2^b : b \in 0 .. MaxPgBits}
  /\ clo_every = 1
  /\ clo_tau = 1
  /\ clo_peakdetect = FALSE
  /\ clo_localitytr = FALSE
  /\ clo_peakwindow = 1
  /\ ws_info_times = <<>>
  /\ next_user_time_idx = -1
  /\ postmortem = FALSE
  /\ guest_instrs_executed = 0
  /\ ht_data = EmptyTable
  /\ ht_insn = EmptyTable
  /\ lastaddr = 0
  /\ lastpage = NULL
  /\ earliest_possible_time_of_next_ws = 0
  /\ ws_at_time = <<>>
  /\ drop_samples = 0
  /\ ws_context_list = <<>>
  /\ pd_data = init_peakd(clo_peakwindow)
  /\ pd_insn = init_peakd(clo_peakwindow)
  /\ locality_insn = init_locality
  /\ locality_data = init_locality
  /\ phase = "running"
  /\ nacc = 0
  /\ ref_data = EmptyTable
  /\ ref_insn = EmptyTable
  /\ ticks = 0
  /\ ev = NoEv
  /\ ht_ec2sampleinfo = EmptyInfoTable
  /\ ninfo = 0
  /\ info_runs = 0
  /\ pk_log = <<>>
  /\ addr_log = <<>>
  /\ events = NoEvents
  /\ events_used = 0
  /\ ninsn = 0
  /\ sbOut = <<>>
  /\ pt = [num |-> 0, tab |-> <<>>]
  /\ mapped = {}
  /\ ramp = NoRamp
  /\ ramp_log = NoRampLog
  /\ out = NoOutput
  /\ freed = <<>>
  /\ clo_info_at = <<>>
  /\ args = <<>>

\* one call pageaddr(addr)
pageaddr_call ==
  \E addr \in 0 .. MaxPgAddr :
    /\ Len(addr_log) < MaxPgCalls
    /\ lastaddr' = pageaddr(clo_pagesize, addr)
    /\ addr_log' = Append(addr_log, addr)
    /\ UNCHANGED <<config_vars, ramp_vars, instr_vars, report_vars, file_vars, next_user_time_idx, postmortem,
                   guest_instrs_executed, ht_data, ht_insn, lastpage,
                   earliest_possible_time_of_next_ws, ws_at_time, drop_samples,
                   ws_context_list, pd_data, pd_insn, locality_insn, locality_data,
                   phase, nacc, ref_data, ref_insn, ticks, ev, pk_log>>

PageNext == pageaddr_call

PageSpec == PageInit /\ [][PageNext]_vars

\* ------------------------------------------------------------------------
\* the start-up: ws_pre_clo_init, ws_process_cmd_line_option once per option
\* of the command line, ws_post_clo_init, and then the run.  A failing
\* tl_assert ends the tool (phase "aborted").
\* ------------------------------------------------------------------------
IntOpts == {"--ws-pagesize", "--ws-every", "--ws-tau", "--ws-peak-window"}
BoolOpts == {"--ws-peak-detect", "--ws-track-locality"}

RECURSIVE SeqsUpTo(_, _)
SeqsUpTo(S, n) ==
  IF n = 0 THEN {<<>>}
  ELSE LET shorter == SeqsUpTo(S, n - 1)
       IN shorter \cup {Append(q, x) : q \in {r \in shorter : Len(r) = n - 1}, x \in S}

\* the options a command line of the model is made of
CmdLineArgs ==
  [opt : IntOpts, val : -1 .. MaxOptVal]
    \cup [opt : BoolOpts, val : BOOLEAN]
    \cup [opt : {"--ws-info-at"}, val : SeqsUpTo(1 .. MaxInfoVal, MaxInfoLen)]

\* a PeakDetect in static storage, before init_peakd
ZeroPeakd == [f \in DOMAIN init_peakd(1) |-> 0]

\* the state after ws_pre_clo_init
CloInit ==
  /\ clo_pagesize = WS_DEFAULT_PS
  /\ clo_every = WS_DEFAULT_EVERY
  /\ clo_tau = 0
  /\ clo_peakdetect = FALSE
  /\ clo_localitytr = FALSE
  /\ clo_peakwindow = WS_DEFAULT_PEAKW
  /\ clo_info_at = <<>>
  /\ args = <<>>
  /\ ws_info_times = <<>>
  /\ next_user_time_idx = -1
  /\ postmortem = FALSE
  /\ guest_instrs_executed = 0
  /\ ht_data = EmptyTable
  /\ ht_insn = EmptyTable
  /\ lastaddr = 0
  /\ lastpage = NULL
  /\ earliest_possible_time_of_next_ws = 0
  /\ ws_at_time = <<>>
  /\ drop_samples = 0
  /\ ws_context_list = <<>>
  /\ pd_data = ZeroPeakd
  /\ pd_insn = ZeroPeakd
  /\ locality_insn = init_locality
  /\ locality_data = init_locality
  /\ phase = "options"
  /\ nacc = 0
  /\ ref_data = EmptyTable
  /\ ref_insn = EmptyTable
  /\ ticks = 0
  /\ ev = NoEv
  /\ ht_ec2sampleinfo = EmptyInfoTable
  /\ ninfo = 0
  /\ info_runs = 0
  /\ pk_log = <<>>
  /\ addr_log = <<>>
  /\ events = NoEvents
  /\ events_used = 0
  /\ ninsn = 0
  /\ sbOut = <<>>
  /\ pt = [num |-> 0, tab |-> <<>>]
  /\ mapped = {}
  /\ ramp = NoRamp
  /\ ramp_log = NoRampLog
  /\ out = NoOutput
  /\ freed = <<>>

\* mutant: the page size and the interval are not asserted
ws_process_cmd_line_option_unchecked(arg) ==
  /\ phase = "options"
  /\ Len(args) < MaxOpts
  /\ args' = Append(args, arg)
  /\ clo_info_at' = IF arg.opt = "--ws-info-at" THEN arg.val ELSE clo_info_at
  /\ clo_pagesize' = IF arg.opt = "--ws-pagesize" THEN arg.val ELSE clo_pagesize
  /\ clo_every' = IF arg.opt = "--ws-every" THEN arg.val ELSE clo_every
  /\ clo_tau' = IF arg.opt = "--ws-tau" THEN arg.val ELSE clo_tau
  /\ clo_peakdetect' = IF arg.opt = "--ws-peak-detect" THEN arg.val ELSE clo_peakdetect
  /\ clo_localitytr' = IF arg.opt = "--ws-track-locality" THEN arg.val ELSE clo_localitytr
  /\ clo_peakwindow' = IF arg.opt = "--ws-peak-window" THEN arg.val ELSE clo_peakwindow
  /\ phase' = IF /\ arg.opt = "--ws-tau" => clo_tau' > 0
                 /\ arg.opt = "--ws-peak-window" => clo_peakwindow' > 0
                THEN "options" ELSE "aborted"
  /\ UNCHANGED <<ws_info_times, next_user_time_idx, postmortem, guest_instrs_executed,
                 ht_data, ht_insn, lastaddr, lastpage, earliest_possible_time_of_next_ws,
                 ws_at_time, drop_samples, ws_context_list, pd_data, pd_insn,
                 locality_insn, locality_data, nacc, ref_data, ref_insn, ticks, ev,
                 report_vars, file_vars, instr_vars, ramp_vars, pk_log, addr_log>>

\* ws_process_cmd_line_option for one option of the command line: the value
\* is stored, then the tl_asserts of the branch and of the end of the
\* function are evaluated
ws_process_cmd_line_option(arg) ==
  /\ phase = "options"
  /\ Len(args) < MaxOpts
  /\ args' = Append(args, arg)
  /\ clo_info_at' = IF arg.opt = "--ws-info-at" THEN arg.val ELSE clo_info_at
  /\ clo_pagesize' = IF arg.opt = "--ws-pagesize" THEN arg.val ELSE clo_pagesize
  /\ clo_every' = IF arg.opt = "--ws-every" THEN arg.val ELSE clo_every
  /\ clo_tau' = IF arg.opt = "--ws-tau" THEN arg.val ELSE clo_tau
  /\ clo_peakdetect' = IF arg.opt = "--ws-peak-detect" THEN arg.val ELSE clo_peakdetect
  /\ clo_localitytr' = IF arg.opt = "--ws-track-locality" THEN arg.val ELSE clo_localitytr
  /\ clo_peakwindow' = IF arg.opt = "--ws-peak-window" THEN arg.val ELSE clo_peakwindow
  /\ phase' = IF /\ arg.opt = "--ws-tau" => clo_tau' > 0
                 /\ arg.opt = "--ws-peak-window" => clo_peakwindow' > 0
                 /\ clo_pagesize' > 0
                 /\ clo_every' > 0
                THEN "options" ELSE "aborted"
  /\ UNCHANGED <<ws_info_times, next_user_time_idx, postmortem, guest_instrs_executed,
                 ht_data, ht_insn, lastaddr, lastpage, earliest_possible_time_of_next_ws,
                 ws_at_time, drop_samples, ws_context_list, pd_data, pd_insn,
                 locality_insn, locality_data, nacc, ref_data, ref_insn, ticks, ev,
                 report_vars, file_vars, instr_vars, ramp_vars, pk_log, addr_log>>

process_option == \E arg \in CmdLineArgs : ws_process_cmd_line_option(arg)

time_compare(t1, t2) == IF t1 > t2 THEN 1 ELSE IF t1 < t2 THEN -1 ELSE 0

\* the numbers of the string s whose Time could be allocated (ok[i]), in the
\* order of the string
RECURSIVE parse_times(_, _, _)
parse_times(str, ok, i) ==
  IF i > Len(str) THEN <<>>
  ELSE (IF ok[i] THEN <<str[i]>> ELSE <<>>) \o parse_times(str, ok, i + 1)

\* VG_(sortXA) with the comparison function time_compare
RECURSIVE sortXA(_)
sortXA(xa) ==
  IF Len(xa) <= 1 THEN xa
  ELSE LET rest == sortXA(Tail(xa))
           lo == SelectSeq(rest, LAMBDA x : time_compare(x, Head(xa)) < 0)
           hi == SelectSeq(rest, LAMBDA x : time_compare(x, Head(xa)) >= 0)
       IN lo \o <<Head(xa)>> \o hi

\* mutant: an entry is compared with the one two places before it
RECURSIVE undupe_skip(_, _, _)
undupe_skip(xa, i, pre) ==
  IF i >= Len(xa) THEN xa
  ELSE LET cur == xa[i + 1]
       IN IF i > 1 /\ xa[i - 1] = cur
            THEN undupe_skip(SubSeq(xa, 1, i) \o SubSeq(xa, i + 2, Len(xa)), i, cur)
            ELSE undupe_skip(xa, i + 1, cur)

\* the loop that removes the duplicates of the sorted array (i counts from 0;
\* pre is read for i > 0 only)
RECURSIVE undupe(_, _, _)
undupe(xa, i, pre) ==
  IF i >= Len(xa) THEN xa
  ELSE LET cur == xa[i + 1]
       IN IF i > 0 /\ pre = cur
            THEN undupe(SubSeq(xa, 1, i) \o SubSeq(xa, i + 2, Len(xa)), i, cur)
            ELSE undupe(xa, i + 1, cur)

\* mutant: tau defaults to the default interval, not to the configured one
ws_post_clo_init_default_tau ==
  /\ phase = "options"
  /\ clo_tau' = IF clo_tau = 0 THEN WS_DEFAULT_EVERY ELSE clo_tau
  /\ \E ok \in [1 .. Len(clo_info_at) -> BOOLEAN] :
     \E xa \in {undupe(sortXA(parse_times(clo_info_at, ok, 1)), 0, 0)} :
       /\ ws_info_times' = xa
       /\ next_user_time_idx' = IF Len(xa) > 0 THEN 0 ELSE next_user_time_idx
       /\ ev' = [NoEv EXCEPT !.op = "post_clo_init", !.alloc_ctx = \A i \in DOMAIN ok : ok[i]]
  /\ pd_data' = init_peakd(clo_peakwindow)
  /\ pd_insn' = init_peakd(clo_peakwindow)
  /\ locality_data' = init_locality
  /\ locality_insn' = init_locality
  /\ phase' = "running"
  /\ nacc' = MaxAcc - StartAcc
  /\ UNCHANGED <<clo_pagesize, clo_every, clo_peakdetect, clo_localitytr, clo_peakwindow,
                 clo_info_at, args, postmortem, guest_instrs_executed,
                 ht_data, ht_insn, lastaddr, lastpage, earliest_possible_time_of_next_ws,
                 ws_at_time, drop_samples, ws_context_list, ref_data, ref_insn, ticks,
                 report_vars, file_vars, instr_vars, ramp_vars, pk_log, addr_log>>

\* ws_post_clo_init: the default of tau, the list of user times, the peak
\* filters and the locality trackers.  ev.alloc_ctx tells whether every Time
\* of the list could be allocated.
ws_post_clo_init ==
  /\ phase = "options"
  /\ clo_tau' = IF clo_tau = 0 THEN clo_every ELSE clo_tau
  /\ \E ok \in [1 .. Len(clo_info_at) -> BOOLEAN] :
     \E xa \in {undupe(sortXA(parse_times(clo_info_at, ok, 1)), 0, 0)} :
       /\ ws_info_times' = xa
       /\ next_user_time_idx' = IF Len(xa) > 0 THEN 0 ELSE next_user_time_idx
       /\ ev' = [NoEv EXCEPT !.op = "post_clo_init", !.alloc_ctx = \A i \in DOMAIN ok : ok[i]]
  /\ pd_data' = init_peakd(clo_peakwindow)
  /\ pd_insn' = init_peakd(clo_peakwindow)
  /\ locality_data' = init_locality
  /\ locality_insn' = init_locality
  /\ phase' = "running"
  /\ nacc' = MaxAcc - StartAcc
  /\ UNCHANGED <<clo_pagesize, clo_every, clo_peakdetect, clo_localitytr, clo_peakwindow,
                 clo_info_at, args, postmortem, guest_instrs_executed,
                 ht_data, ht_insn, lastaddr, lastpage, earliest_possible_time_of_next_ws,
                 ws_at_time, drop_samples, ws_context_list, ref_data, ref_insn, ticks,
                 report_vars, file_vars, instr_vars, ramp_vars, pk_log, addr_log>>

CloNext == process_option \/ ws_post_clo_init \/ Next

CloSpec == CloInit /\ [][CloNext]_vars

\* ========================================================================
\* Properties
\* ========================================================================
Max(a, b) == IF a > b THEN a ELSE b

Tables == {ht_data, ht_insn}

\* the last handler appended a sample
Sampled == ev.tick /\ ev.alloc_ws

\* the number of pages of ref whose most recent access lies in (lo, hi]
WindowCount(ref, lo, hi) ==
  Cardinality({p \in DOMAIN ref : lo < ref[p].last_access /\ ref[p].last_access <= hi})

\* ------------------------------------------------------------------------
\* C1: every appended sample counts, per kind, the distinct pages accessed at
\* some time in (t - tau, t].  (All accesses lie at times <= t when the sample
\* is taken, so a page was accessed in the window iff its most recent access
\* of that kind is in the window.)
C1_WindowOfAccesses ==
  Sampled =>
    LET w == Last(ws_at_time)
    IN /\ w.pages_insn = WindowCount(ref_insn, w.t - clo_tau, w.t)
       /\ w.pages_data = WindowCount(ref_data, w.t - clo_tau, w.t)

\* ------------------------------------------------------------------------
\* the table after touches of pages 1, 1, 2, 1 (units of the page size) at
\* times 0, 1, 2, 3
ScenarioTable ==
  LET p1 == 1 * clo_pagesize
      p2 == 2 * clo_pagesize
      a0 == pageaccess(p1, "data", EmptyTable, EmptyTable, 0, NULL, 0)
      a1 == pageaccess(p1, "data", a0.ht_data, a0.ht_insn, a0.lastaddr, a0.lastpage, 1)
      a2 == pageaccess(p2, "data", a1.ht_data, a1.ht_insn, a1.lastaddr, a1.lastpage, 2)
      a3 == pageaccess(p1, "data", a2.ht_data, a2.ht_insn, a2.lastaddr, a2.lastpage, 3)
  IN a3.ht_data

C3_CountsAndTimes ==
  /\ \A p \in DOMAIN ref_insn : p \in DOMAIN ht_insn /\ ht_insn[p] = ref_insn[p]
  /\ \A p \in DOMAIN ref_data : p \in DOMAIN ht_data /\ ht_data[p] = ref_data[p]

\* ------------------------------------------------------------------------
\* C4: the one-entry cache is transparent: the tables built with the cache
\* equal the tables built by the uncached lookup-or-create pageaccess.
C4_CacheTransparent ==
  <<ht_insn, ht_data>> = <<ref_insn, ref_data>>

\* ------------------------------------------------------------------------
\* C5: each table holds exactly one record per distinct page accessed under
\* its kind, and the number of records never decreases.
C5_OneRecordPerPage ==
  /\ [](DOMAIN ht_insn = DOMAIN ref_insn /\ DOMAIN ht_data = DOMAIN ref_data)
  /\ [][DOMAIN ht_insn \subseteq DOMAIN ht_insn' /\ DOMAIN ht_data \subseteq DOMAIN ht_data']_vars

\* ------------------------------------------------------------------------
\* one step of the cadence: compute_ws ran (a sample was appended or dropped)
Ticked == Len(ws_at_time') + drop_samples' = Len(ws_at_time) + drop_samples + 1

C6_Step ==
  nacc' = nacc + 1 =>
    LET now == get_time(guest_instrs_executed)
    IN /\ Ticked <=> now >= earliest_possible_time_of_next_ws
       /\ Ticked => earliest_possible_time_of_next_ws' = now + clo_every
       /\ ~Ticked => UNCHANGED <<earliest_possible_time_of_next_ws, ws_at_time, drop_samples>>

\* the number of samples appended by maybe_compute_ws (all but the forced one)
NumCadenceSamples ==
  IF ev.op = "fini" /\ ev.alloc_ws THEN Len(ws_at_time) - 1 ELSE Len(ws_at_time)

C6_Spacing ==
  \A i \in 1 .. (NumCadenceSamples - 1) : ws_at_time[i + 1].t - ws_at_time[i].t >= clo_every

\* C6: on every access the sampling step (compute_ws) runs iff
\* now >= earliest_possible_time_of_next_ws (initially 0) and then the latter
\* becomes now + every; so two consecutive samples taken by maybe_compute_ws
\* are at least `every` apart.
C6_SamplingCadence ==
  /\ [](C6_Spacing /\ (ticks = 0 => earliest_possible_time_of_next_ws = 0))
  /\ [][C6_Step]_vars

\* an access that came too early for a sample, after two samples were taken
C6_Witness ==
  /\ ev.op \in {"data", "insn"}
  /\ ~ev.tick
  /\ Len(ws_at_time) >= 2
  /\ clo_every > 1

\* ------------------------------------------------------------------------
\* C7: the sample sequence is strictly increasing in time, the forced last
\* sample included, and append-only.
C7_StrictlyIncreasing ==
  /\ [](\A i, j \in 1 .. Len(ws_at_time) : i < j => ws_at_time[i].t < ws_at_time[j].t)
  /\ [][/\ Len(ws_at_time') >= Len(ws_at_time)
        /\ SubSeq(ws_at_time', 1, Len(ws_at_time)) = ws_at_time]_vars

\* ------------------------------------------------------------------------
\* the step taken by ws_fini
FiniStep == phase = "running" /\ phase' = "finished"

\* C8: ws_fini runs the sampling step exactly once at the current time,
\* whatever the cadence (also when now < earliest_possible_time_of_next_ws);
\* the sample it takes is the last element of the sequence and the earlier
\* samples stay in place.  The step's own failure path is the one of C9: when
\* the record cannot be allocated the sample is dropped and counted.
C8_ForcedSampleOrDrop ==
  [][FiniStep =>
       LET now == get_time(guest_instrs_executed)
           ws  == [t |-> now,
                   pages_insn |-> recently_used_pages(ht_insn, now, clo_tau),
                   pages_data |-> recently_used_pages(ht_data, now, clo_tau)]
       IN \/ ws_at_time' = Append(ws_at_time, ws) /\ drop_samples' = drop_samples
          \/ ws_at_time' = ws_at_time /\ drop_samples' = drop_samples + 1]_vars

\* the forced sample was appended although the cadence did not allow one
C8_Witness ==
  /\ ev.op = "fini"
  /\ ev.alloc_ws
  /\ guest_instrs_executed < earliest_possible_time_of_next_ws
  /\ Len(ws_at_time) >= 2
  /\ Last(ws_at_time).t = guest_instrs_executed

\* ------------------------------------------------------------------------
\* a step in which compute_ws ran and could not allocate the sample record
C9_Step ==
  (ev'.tick /\ ~ev'.alloc_ws) =>
    /\ drop_samples' = drop_samples + 1
    /\ UNCHANGED <<ws_at_time, pd_data, pd_insn, next_user_time_idx, ws_context_list>>
    /\ phase' # "crashed"
    /\ IF ev'.op = "fini"
         THEN UNCHANGED <<ht_data, ht_insn>>
         ELSE \E addr \in Addrs :
                LET a == pageaccess(pageaddr(clo_pagesize, addr), ev'.op, ht_data, ht_insn,
                                    lastaddr, lastpage, get_time(guest_instrs_executed))
                IN ht_data' = a.ht_data /\ ht_insn' = a.ht_insn

\* C9: when the allocation of the sample record fails, drop_samples grows by
\* one and the samples, both detectors, the cursor, the context list and the
\* page tables (as pageaccess left them) stay as they are; the run goes on;
\* samples appended + drop_samples = number of compute_ws calls.
C9_DroppedSample ==
  /\ [](Len(ws_at_time) + drop_samples = ticks)
  /\ [][C9_Step]_vars

\* a sample is appended by an access after an earlier sample was dropped
C9_Witness ==
  /\ drop_samples > 0
  /\ Sampled
  /\ ev.op \in {"data", "insn"}
  /\ (pd_data.k > 0 \/ ws_context_list # <<>>)

\* ------------------------------------------------------------------------
\* a step in which record_sample_info could not allocate the SampleContext
CtxAllocFailed == ev'.info /\ ~ev'.alloc_ctx

SampleAppended == Len(ws_at_time') = Len(ws_at_time) + 1

\* what the handlers do to the two detectors: with peak detection enabled
\* an appended sample is run through both, each exactly once; otherwise they
\* are left alone
C15_Step ==
  IF SampleAppended /\ clo_peakdetect
    THEN /\ pd_data' = peak_detect(pd_data, Last(ws_at_time').pages_data).pd
         /\ pd_insn' = peak_detect(pd_insn, Last(ws_at_time').pages_insn).pd
    ELSE UNCHANGED <<pd_data, pd_insn>>

\* C15: with peak detection enabled, for every appended sample peak_detect
\* runs exactly once on each detector whatever either call returns, so after
\* every sample pd_data.k = pd_insn.k = min(window, number of samples).
C15_BothDetectorsRun ==
  /\ [][C15_Step]_vars
  /\ [](clo_peakdetect =>
          /\ pd_data.k = pd_insn.k
          /\ pd_data.k = IF Len(ws_at_time) < clo_peakwindow
                           THEN Len(ws_at_time) ELSE clo_peakwindow)

\* a sample for which only the data detector returned true, taken while the
\* detectors were still warming up two samples earlier
C15_Witness ==
  /\ clo_peakdetect
  /\ Sampled
  /\ clo_peakwindow > 1
  /\ Len(ws_at_time) > clo_peakwindow
  /\ pd_data.peak_pre # 0
  /\ pd_insn.peak_pre = 0
  /\ pd_insn.k = clo_peakwindow

\* ------------------------------------------------------------------------
\* a step in which compute_ws ran
TickStep == ticks' = ticks + 1

\* the user-time cursor is active and the current time has reached its entry
UserHit ==
  /\ next_user_time_idx >= 0
  /\ get_time(guest_instrs_executed) >= ws_info_times[next_user_time_idx + 1]

\* peak detection is enabled and one of the detectors returns true for the
\* sample appended in this step
PeakHit ==
  /\ clo_peakdetect
  /\ \/ peak_detect(pd_data, Last(ws_at_time').pages_data).ret
     \/ peak_detect(pd_insn, Last(ws_at_time').pages_insn).ret

C19_Step ==
  IF TickStep
    THEN /\ Len(ws_context_list') \in {Len(ws_context_list), Len(ws_context_list) + 1}
         /\ SubSeq(ws_context_list', 1, Len(ws_context_list)) = ws_context_list
         /\ SampleAppended =>
              /\ ev'.info <=> (UserHit \/ PeakHit)
              /\ ev'.info /\ ev'.alloc_ctx <=> Len(ws_context_list') = Len(ws_context_list) + 1
              /\ Len(ws_context_list') = Len(ws_context_list) + 1 =>
                   Last(ws_context_list').t = Last(ws_at_time').t
         /\ ~SampleAppended => ws_context_list' = ws_context_list
    ELSE ws_context_list' = ws_context_list

\* C19: per call of compute_ws at most one SampleContext is appended, and
\* (the allocations succeeding) one is appended iff the user-time cursor is
\* active and the sample time has reached its entry, or peak detection is
\* enabled and at least one detector returned true for this sample.
C19_AtMostOneContext ==
  [][C19_Step]_vars

\* a sample that reached a user time and was a peak as well: one context
C19_Witness ==
  /\ Sampled
  /\ ev.info /\ ev.alloc_ctx
  /\ clo_peakdetect
  /\ ws_info_times # <<>>
  /\ next_user_time_idx = -1
  /\ pd_data.peak_pre # 0
  /\ Len(ws_context_list) = 1
  /\ Len(ws_at_time) = 2
  /\ Last(ws_context_list).t = Last(ws_at_time).t

\* ------------------------------------------------------------------------
\* after a sample that recorded a context for a user time the cursor is
\* exhausted or on an entry later than the sample
C20_Step ==
  (TickStep /\ SampleAppended /\ UserHit
     /\ Len(ws_context_list') = Len(ws_context_list) + 1) =>
    \/ next_user_time_idx' = -1
    \/ ws_info_times[next_user_time_idx' + 1] > Last(ws_at_time').t

\* without peak detection every context stands for a user time: a further one
\* is recorded only for an entry later than the sample of the previous one
C20_NoSecondContext ==
  (TickStep /\ SampleAppended /\ UserHit /\ ~clo_peakdetect
     /\ ws_context_list # <<>>) =>
    ws_info_times[next_user_time_idx + 1] > Last(ws_context_list).t

\* C20: when a sample at time t records a context for a user-requested time,
\* the cursor skips every user time already reached: afterwards it is
\* exhausted or points to an entry > t, so no later sample records a context
\* on account of a user time <= t, and the contexts recorded for user times
\* never outnumber the distinct user times.
C20_CursorSkipsReached ==
  /\ [][C20_Step /\ C20_NoSecondContext]_vars
  /\ [](~clo_peakdetect => Len(ws_context_list) <= Len(ws_info_times))

\* ------------------------------------------------------------------------
\* a step that appended a SampleContext
ContextAppended == Len(ws_context_list') = Len(ws_context_list) + 1

C21_Step ==
  /\ ContextAppended =>
       IF ev'.op = "fini"
         THEN Last(ws_context_list').ec = NullExeContext
         ELSE Last(ws_context_list').ec \in ExeContexts \ {NullExeContext}
  /\ postmortem' <=> ev'.op = "fini" \/ postmortem
  /\ postmortem => ~ContextAppended

\* C21: every SampleContext appended before termination carries the live
\* call context of the running thread, every SampleContext appended during
\* the final forced sample of ws_fini carries the null context: postmortem
\* is set before the final compute_ws, never earlier and never reset.
C21_LiveThenNullContext ==
  /\ [][C21_Step]_vars
  /\ [](postmortem <=> phase = "finished")
  /\ [](~postmortem => \A i \in 1 .. Len(ws_context_list) :
                          ws_context_list[i].ec # NullExeContext)

\* a finished run with a context of a running thread and one of the last sample
C21_Witness ==
  /\ phase = "finished"
  /\ Len(ws_context_list) >= 2
  /\ ws_context_list[1].ec \in ExeContexts
  /\ Last(ws_context_list).ec = NullExeContext
  /\ ev.op = "fini" /\ ev.alloc_ctx

\* ------------------------------------------------------------------------
\* C22: in every reachable state the SampleContext list is in non-decreasing
\* time order, and the time of every SampleContext is the time of a sample
\* that is already in the sample sequence.
C22_ContextsOrderedAndSampled ==
  /\ \A i, j \in 1 .. Len(ws_context_list) :
       i < j => ws_context_list[i].t <= ws_context_list[j].t
  /\ \A i \in 1 .. Len(ws_context_list) :
       \E k \in 1 .. Len(ws_at_time) : ws_at_time[k].t = ws_context_list[i].t

\* contexts of two samples taken at different times
C22_Witness ==
  /\ Len(ws_context_list) >= 2
  /\ ws_context_list[1].t < Last(ws_context_list).t
  /\ Len(ws_at_time) > Len(ws_context_list)

\* ------------------------------------------------------------------------
\* the listing lists every node of the table ht exactly once
ListsTable(listing, ht) ==
  /\ Len(listing) = Cardinality(DOMAIN ht)
  /\ \A p \in DOMAIN ht :
       \E i \in 1 .. Len(listing) : listing[i] = [key |-> p, node |-> ht[p]]

\* the counts of the listing do not increase
ByCount(listing) ==
  \A i \in 1 .. Len(listing) - 1 : listing[i].node.count >= listing[i + 1].node.count

RECURSIVE ColumnSum(_, _, _)
ColumnSum(rows, col, i) ==
  IF i > Len(rows) THEN 0 ELSE rows[i][col] + ColumnSum(rows, col, i + 1)

\* the quotient avg.num / avg.den is the mean of n values with the sum total
IsMean(avg, total, n) ==
  /\ avg.den # 0
  /\ avg.num * n = total * avg.den

\* C27: the avg value of the report is the average working-set size over all
\* samples in the table: avg times the number of printed samples equals the
\* sum of the printed working-set sizes, for every non-empty sample sequence
\* (a sequence of exactly one sample included).
C27_AvgIsMean ==
  (out.opened /\ Len(out.rows) > 0) =>
    /\ IsMean(out.avg_i, ColumnSum(out.rows, "pi", 1), Len(out.rows))
    /\ IsMean(out.avg_d, ColumnSum(out.rows, "pd", 1), Len(out.rows))

\* ------------------------------------------------------------------------
\* the places of the release of what in the log of the teardown
Released(what) == {i \in 1 .. Len(freed) : freed[i] = what}

\* every release of a is logged before every release of b
ReleasedBefore(a, b) == \A i \in Released(a), j \in Released(b) : i < j

\* C28: teardown happens exactly once, at shutdown, on every path through
\* ws_fini (the path where the output file cannot be opened included), in the
\* fixed order: detach caches, free page records, free sample sequences,
\* free context table; nothing is freed before shutdown.
C28_TeardownOnceInOrder ==
  /\ phase # "finished" => freed = <<>>
  /\ phase = "finished" =>
       /\ lastpage = NULL
       /\ \A what \in {"ht_data", "ht_insn", "ws_at_time", "ws_context_list",
                        "ht_ec2sampleinfo"} : Cardinality(Released(what)) = 1
       /\ \A pages \in {"ht_data", "ht_insn"}, seqs \in {"ws_at_time", "ws_context_list"} :
            /\ ReleasedBefore(pages, seqs)
            /\ ReleasedBefore(seqs, "ht_ec2sampleinfo")

\* ========================================================================
\* ws_instrument on one block (InstrSpec)
\* ========================================================================
\* the statements a block is made of: addresses and guards are atoms, the
\* instruction address is a constant of its own
Stmts ==
  {IRStmt("Ist_IMark", "-", MaxAtom + 1, 1, NullAtom, 0),
   IRStmt("Ist_Put", "-", NullAtom, 0, NullAtom, 0),
   IRStmt("Ist_Exit", "-", NullAtom, 0, 1, 0),
   IRStmt("Ist_Store", "-", 1, 1, NullAtom, 0),
   IRStmt("Ist_StoreG", "-", 1, 1, 1, 0),
   IRStmt("Ist_LoadG", "-", 1, 1, 1, 0),
   IRStmt("Ist_Dirty", "Ifx_Modify", 1, 1, NullAtom, 0),
   IRStmt("Ist_CAS", "-", 1, 1, NullAtom, 0),
   IRStmt("Ist_LLSC", "LL", 1, 1, NullAtom, 0),
   IRStmt("Ist_LLSC", "SC", 1, 1, NullAtom, 0)}
  \cup {IRStmt("Ist_WrTmp_Load", "-", q[1], q[2], NullAtom, 0) :
          q \in {r \in (1 .. MaxAtom) \X (1 .. MaxDSize) : r[1] = 1 \/ r[2] = 1}}

\* the statements the instrumentation adds to the block
Added == {"helper", "counter_update"}

\* the statements of sb that come from the block instrumented
StmtsIn(sb) == {i \in 1 .. Len(sb) : sb[i].tag \notin Added}

\* the event list and the block produced, as ws_instrument sees them
Block ==
  [events |-> events, events_used |-> events_used, ninsn |-> ninsn,
   sb |-> sbOut, ok |-> TRUE]

InstrInit ==
  /\ clo_pagesize = 1
  /\ clo_every = 1
  /\ clo_tau = 1
  /\ clo_peakdetect = FALSE
  /\ clo_localitytr = FALSE
  /\ clo_peakwindow = 1
  /\ ws_info_times = <<>>
  /\ next_user_time_idx = -1
  /\ postmortem = FALSE
  /\ guest_instrs_executed = 0
  /\ ht_data = EmptyTable
  /\ ht_insn = EmptyTable
  /\ lastaddr = 0
  /\ lastpage = NULL
  /\ earliest_possible_time_of_next_ws = 0
  /\ ws_at_time = <<>>
  /\ drop_samples = 0
  /\ ws_context_list = <<>>
  /\ pd_data = init_peakd(clo_peakwindow)
  /\ pd_insn = init_peakd(clo_peakwindow)
  /\ locality_insn = init_locality
  /\ locality_data = init_locality
  /\ phase = "instrument"
  /\ nacc = 0
  /\ ref_data = EmptyTable
  /\ ref_insn = EmptyTable
  /\ ticks = 0
  /\ ev = NoEv
  /\ ht_ec2sampleinfo = EmptyInfoTable
  /\ ninfo = 0
  /\ info_runs = 0
  /\ pk_log = <<>>
  /\ addr_log = <<>>
  /\ events = NoEvents
  /\ events_used = 0
  /\ ninsn = 0
  /\ sbOut = <<>>
  /\ pt = [num |-> 0, tab |-> <<>>]
  /\ mapped = {}
  /\ ramp = NoRamp
  /\ ramp_log = NoRampLog
  /\ out = NoOutput
  /\ freed = <<>>
  /\ clo_info_at = <<>>
  /\ args = <<>>

\* one iteration of the loop of ws_instrument; the loop starts at the first
\* IMark of the block
ws_instrument_step ==
  \E st \in Stmts :
    /\ phase = "instrument"
    /\ Cardinality(StmtsIn(sbOut)) < MaxStmts
    /\ sbOut = <<>> => st.tag = "Ist_IMark"
    /\ \E c \in {ws_instrument_stmt(Block, st)} :
         /\ events' = c.events
         /\ events_used' = c.events_used
         /\ ninsn' = c.ninsn
         /\ sbOut' = c.sb
         /\ phase' = IF c.ok THEN "instrument" ELSE "aborted"
    /\ UNCHANGED <<config_vars, ramp_vars, report_vars, file_vars, next_user_time_idx, postmortem,
                   guest_instrs_executed, ht_data, ht_insn, lastaddr, lastpage,
                   earliest_possible_time_of_next_ws, ws_at_time, drop_samples,
                   ws_context_list, pd_data, pd_insn, locality_insn, locality_data,
                   nacc, ref_data, ref_insn, ticks, ev, pk_log, addr_log>>

\* the end of the block: ws_instrument returns sbOut
ws_instrument_return ==
  /\ phase = "instrument"
  /\ sbOut # <<>>
  /\ \E c \in {ws_instrument_end(Block)} :
       /\ events' = c.events
       /\ events_used' = c.events_used
       /\ ninsn' = c.ninsn
       /\ sbOut' = c.sb
  /\ phase' = "instrumented"
  /\ UNCHANGED <<config_vars, ramp_vars, report_vars, file_vars, next_user_time_idx, postmortem,
                 guest_instrs_executed, ht_data, ht_insn, lastaddr, lastpage,
                 earliest_possible_time_of_next_ws, ws_at_time, drop_samples,
                 ws_context_list, pd_data, pd_insn, locality_insn, locality_data,
                 nacc, ref_data, ref_insn, ticks, ev, pk_log, addr_log>>

\* the places where an execution can leave the block produced: behind one of
\* its exits or behind its last statement
LeavingPoints(sb) == {i \in 1 .. Len(sb) : sb[i].tag = "Ist_Exit"} \cup {Len(sb)}

RECURSIVE CounterUpdates(_, _)
\* the sum of the counter updates among the first p statements of sb
CounterUpdates(sb, p) ==
  IF p = 0 THEN 0
  ELSE CounterUpdates(sb, p - 1) + (IF sb[p].tag = "counter_update" THEN sb[p].n ELSE 0)

\* the guest runs the block produced up to leaving point p: the counter
\* updates on the way are stored to guest_instrs_executed
run_counter_updates ==
  \E p \in LeavingPoints(sbOut) :
    /\ phase = "instrumented"
    /\ guest_instrs_executed' = guest_instrs_executed + CounterUpdates(sbOut, p)
    /\ ev' = [op |-> "leave", at |-> p]
    /\ phase' = "left"
    /\ UNCHANGED <<config_vars, ramp_vars, instr_vars, report_vars, file_vars, next_user_time_idx,
                   postmortem, ht_data, ht_insn, lastaddr, lastpage,
                   earliest_possible_time_of_next_ws, ws_at_time, drop_samples,
                   ws_context_list, pd_data, pd_insn, locality_insn, locality_data,
                   nacc, ref_data, ref_insn, ticks, pk_log, addr_log>>

InstrNext == ws_instrument_step \/ ws_instrument_return \/ run_counter_updates

InstrSpec == InstrInit /\ [][InstrNext]_vars

\* ========================================================================
\* the pageramp test (RampSpec)
\* ========================================================================
\* main up to the first cycle: pt.num = 0 and pt.tab = malloc of maxp
\* pointers.  tab[0 .. maxp-1] is the array (every slot is written before it
\* is read); tab[maxp] is the word behind it, with whatever it holds.
RampInit ==
  /\ clo_pagesize = 1
  /\ clo_every = 1
  /\ clo_tau = 1
  /\ clo_peakdetect = FALSE
  /\ clo_localitytr = FALSE
  /\ clo_peakwindow = 1
  /\ ws_info_times = <<>>
  /\ next_user_time_idx = -1
  /\ postmortem = FALSE
  /\ guest_instrs_executed = 0
  /\ ht_data = EmptyTable
  /\ ht_insn = EmptyTable
  /\ lastaddr = 0
  /\ lastpage = NULL
  /\ earliest_possible_time_of_next_ws = 0
  /\ ws_at_time = <<>>
  /\ drop_samples = 0
  /\ ws_context_list = <<>>
  /\ pd_data = init_peakd(clo_peakwindow)
  /\ pd_insn = init_peakd(clo_peakwindow)
  /\ locality_insn = init_locality
  /\ locality_data = init_locality
  /\ phase = "running"
  /\ nacc = 0
  /\ ref_data = EmptyTable
  /\ ref_insn = EmptyTable
  /\ ticks = 0
  /\ ev = NoEv
  /\ ht_ec2sampleinfo = EmptyInfoTable
  /\ ninfo = 0
  /\ info_runs = 0
  /\ pk_log = <<>>
  /\ addr_log = <<>>
  /\ events = NoEvents
  /\ events_used = 0
  /\ ninsn = 0
  /\ sbOut = <<>>
  /\ \E maxp \in 0 .. MaxP, cycles \in 0 .. MaxCycles, garbage \in {NullPage} \cup Pages :
       /\ pt = [num |-> 0,
                tab |-> [i \in 0 .. maxp |-> IF i < maxp THEN NullPage ELSE garbage]]
       /\ ramp = [maxp |-> maxp, cycles |-> cycles, c |-> 0, p |-> 0,
                  at |-> IF maxp > 0 /\ cycles > 0 THEN "up" ELSE "done"]
  /\ mapped = {}
  /\ ramp_log = NoRampLog
  /\ out = NoOutput
  /\ freed = <<>>
  /\ clo_info_at = <<>>
  /\ args = <<>>

\* claim_page(&pt) in the ramp up; mmap returns an address not mapped so far
claim_page ==
  \E pg \in Pages \ mapped :
    /\ ramp.at = "up"
    /\ pt' = [num |-> pt.num + 1, tab |-> [pt.tab EXCEPT ![pt.num] = pg]]
    /\ mapped' = mapped \cup {pg}
    /\ ramp' = [ramp EXCEPT !.at = "up_touch"]
    /\ ramp_log' = [ramp_log EXCEPT !.oob = @ \/ pt.num \notin 0 .. ramp.maxp - 1,
                                    !.cycle = (IF ramp.p = 0 THEN {} ELSE @) \cup {pg}]
    /\ UNCHANGED <<config_vars, instr_vars, report_vars, file_vars, next_user_time_idx,
                   postmortem, guest_instrs_executed, ht_data, ht_insn, lastaddr, lastpage,
                   earliest_possible_time_of_next_ws, ws_at_time, drop_samples,
                   ws_context_list, pd_data, pd_insn, locality_insn, locality_data,
                   phase, nacc, ref_data, ref_insn, ticks, ev, pk_log, addr_log>>

\* release_page(&pt) in the ramp down: munmap of tab[num], tab[num] = NULL,
\* then num--
release_page ==
  /\ ramp.at = "down"
  /\ mapped' = mapped \ {pt.tab[pt.num]}
  /\ pt' = [num |-> pt.num - 1, tab |-> [pt.tab EXCEPT ![pt.num] = NullPage]]
  /\ ramp' = [ramp EXCEPT !.at = "down_touch"]
  /\ ramp_log' = [ramp_log EXCEPT !.oob = @ \/ pt.num \notin 0 .. ramp.maxp - 1]
  /\ UNCHANGED <<config_vars, instr_vars, report_vars, file_vars, next_user_time_idx,
                 postmortem, guest_instrs_executed, ht_data, ht_insn, lastaddr, lastpage,
                 earliest_possible_time_of_next_ws, ws_at_time, drop_samples,
                 ws_context_list, pd_data, pd_insn, locality_insn, locality_data,
                 phase, nacc, ref_data, ref_insn, ticks, ev, pk_log, addr_log>>

\* touch_pages(&pt): a write to the first byte of tab[0 .. num-1]; a write
\* to a page that is not mapped ends the test
touch_pages ==
  /\ ramp.at \in {"up_touch", "down_touch"}
  /\ \E fault \in {\E p \in 0 .. pt.num - 1 : pt.tab[p] \notin mapped} :
       /\ ramp_log' = [ramp_log EXCEPT !.fault = fault]
       /\ ramp' = IF fault THEN [ramp EXCEPT !.at = "crashed"] ELSE ramp_advance(ramp)
  /\ UNCHANGED <<config_vars, instr_vars, report_vars, file_vars, next_user_time_idx,
                 postmortem, guest_instrs_executed, ht_data, ht_insn, lastaddr, lastpage,
                 earliest_possible_time_of_next_ws, ws_at_time, drop_samples,
                 ws_context_list, pd_data, pd_insn, locality_insn, locality_data,
                 phase, nacc, ref_data, ref_insn, ticks, ev, pk_log, addr_log,
                 pt, mapped>>

RampNext == claim_page \/ release_page \/ touch_pages

RampSpec == RampInit /\ [][RampNext]_vars

\* ========================================================================
\* Properties of the peak detector (PeakSpec)
\* ========================================================================
\* the sign stored before call i of the log
PrevSign(i) == IF i = 1 THEN 0 ELSE pk_log[i - 1].pk

\* ------------------------------------------------------------------------
\* C11: each of the first `window` calls of peak_detect on a freshly
\* initialised detector returns false, for every window length, threshold
\* gain and input sequence.
C11_WarmUpSuppression ==
  \A i \in 1 .. Len(pk_log) : i <= pd_data.window => ~pk_log[i].ret

\* a jump of the signal during the warm-up went unreported, and the first
\* call after the warm-up reported a peak
C11_Witness ==
  /\ pd_data.window >= 2
  /\ Len(pk_log) > pd_data.window
  /\ pk_log[2].y >= 5 * pk_log[1].y
  /\ pk_log[pd_data.window + 1].ret

\* ------------------------------------------------------------------------
\* C12: a call returns true iff the sign computed in the call differs from
\* the sign stored by the previous call (0 before the first call); a call
\* that computes the same sign as its predecessor returns false.
C12_EdgeTriggered ==
  /\ \A i \in 1 .. Len(pk_log) : pk_log[i].ret <=> (pk_log[i].pk # PrevSign(i))
  /\ pd_data.peak_pre = PrevSign(Len(pk_log) + 1)

\* two consecutive calls computed a positive peak: the second returned false
C12_Witness ==
  \E i \in 2 .. Len(pk_log) :
    /\ pk_log[i].pk = 1
    /\ pk_log[i - 1].pk = 1
    /\ ~pk_log[i].ret
    /\ pk_log[i - 1].ret
\* ------------------------------------------------------------------------
\* the values fed so far
Fed == [i \in 1 .. Len(pk_log) |-> pk_log[i].y]

\* the values returned so far
Returned == [i \in 1 .. Len(pk_log) |-> pk_log[i].ret]

\* the log is a constant signal of n >= window samples, then one higher
\* sample that is honored as a peak, then the constant again
SpikeLog(n) ==
  /\ n >= pd_data.window
  /\ Len(pk_log) > n
  /\ \A i \in 1 .. Len(pk_log) : i # n + 1 => pk_log[i].y = pk_log[1].y
  /\ pk_log[n + 1].y > pk_log[1].y
  /\ pk_log[n + 1].pk = 1

\* the detector of the end-to-end scenario: window 3, default threshold gain
ScenarioDetector == pd_data.window = 3 /\ pd_data.threshgain = WS_DEFAULT_PEAKT

\* C13: a constant signal for at least `window` samples and then a single
\* large spike gives true on the spike, true on the next normal-valued sample
\* and false on every other call; window 3 and 10,10,10,10,50,10 return
\* false,false,false,false,true,true.
C13_SpikeTwoEdges ==
  /\ \A n \in 1 .. MaxFeed :
       SpikeLog(n) => \A i \in 1 .. Len(pk_log) : pk_log[i].ret <=> i \in {n + 1, n + 2}
  /\ (ScenarioDetector /\ Fed = <<10, 10, 10, 10, 50, 10>>)
       => Returned = <<FALSE, FALSE, FALSE, FALSE, TRUE, TRUE>>

\* C13, amended: the calls before the spike return false, the spike and the
\* next normal-valued sample return true; from then on the sign is 0 or -1
\* (the return to normal can itself count as a negative peak), so a further
\* true can follow; window 3 and 10,10,10,10,50,10 return
\* false,false,false,false,true,true.
C13_SpikeEdges ==
  /\ \A n \in 1 .. MaxFeed :
       SpikeLog(n) =>
         /\ \A i \in 1 .. n : ~pk_log[i].ret
         /\ pk_log[n + 1].ret
         /\ Len(pk_log) >= n + 2 => pk_log[n + 2].ret
         /\ \A i \in (n + 2) .. Len(pk_log) : pk_log[i].pk \in {0, -1}
  /\ (ScenarioDetector /\ Fed = <<10, 10, 10, 10, 50, 10>>)
       => Returned = <<FALSE, FALSE, FALSE, FALSE, TRUE, TRUE>>

\* a spike after which a third call returned true
C13_Witness ==
  \E n \in 1 .. MaxFeed :
    /\ SpikeLog(n)
    /\ Len(pk_log) >= n + 3
    /\ pk_log[n + 2].pk = -1
    /\ \E i \in (n + 3) .. Len(pk_log) : pk_log[i].ret

\* ------------------------------------------------------------------------
\* C14: with window 3 and the default gain and adaptation rate, after
\* 10,10,10,10,50 a 6th sample of 50 returns false because the sign stays +1.
C14_SustainedStaysPeak ==
  (ScenarioDetector /\ Fed = <<10, 10, 10, 10, 50, 50>>)
    => ~pk_log[6].ret /\ pk_log[6].pk = 1

\* C14, amended: the 5th sample (50) returns true with sign +1, and the 6th
\* sample of 50 returns true as well: the threshold has risen with the
\* variance above the deviation from the moving average, the sign is 0 again.
C14_SustainedLeavesPeak ==
  (ScenarioDetector /\ Fed = <<10, 10, 10, 10, 50, 50>>)
    => /\ Returned = <<FALSE, FALSE, FALSE, FALSE, TRUE, TRUE>>
       /\ pk_log[5].pk = 1
       /\ pk_log[6].pk = 0
       /\ peak_thresh(pd_data) > 0

\* the scenario of C14 has been fed to the detector
C14_Witness ==
  /\ ScenarioDetector
  /\ Fed = <<10, 10, 10, 10, 50, 50>>
  /\ pd_data.adaptrate * AdaptDen = FOne
  /\ pk_log[6].ret
\* ------------------------------------------------------------------------
\* the moving statistics after a call of peak_detect that found the detector
\* pd and filtered the sample to filt
StatsAfter(pd, filt) ==
  LET alpha == (2 * FOne) \div (pd.window + 1)
      diff == filt - pd.movingAvg
  IN IF pd.k > 0
       THEN [movingVar |-> FMul(FOne - alpha, pd.movingVar + FMul(FMul(alpha, diff), diff)),
             movingAvg |-> FMul(alpha, filt) + FMul(FOne - alpha, pd.movingAvg)]
       ELSE [movingVar |-> 0, movingAvg |-> filt]

C29_Step ==
  pk_log' # pk_log =>
    /\ pd_data'.movingVar = StatsAfter(pd_data, pd_data'.filt_pre).movingVar
    /\ pd_data'.movingAvg = StatsAfter(pd_data, pd_data'.filt_pre).movingAvg

\* C29: in every peak_detect call with k > 0 the moving variance is updated
\* before the moving average and from the pre-update average: new movingVar =
\* (1 - alpha) * (old movingVar + alpha * (filt - old movingAvg)^2), then new
\* movingAvg = alpha * filt + (1 - alpha) * old movingAvg, with alpha =
\* 2 / (window + 1); on the first call (k = 0) movingVar = 0 and movingAvg =
\* filt.
C29_VarianceBeforeAverage ==
  [][C29_Step]_vars

\* a second call with another value than the first: the variance is positive
\* and the average lies between the two values
C29_Witness ==
  /\ Len(pk_log) = 2
  /\ pd_data.window > 1
  /\ pk_log[1].y < pk_log[2].y
  /\ pd_data.movingVar > 0
  /\ pd_data.movingAvg > pk_log[1].y * FOne
  /\ pd_data.movingAvg < pk_log[2].y * FOne

\* ========================================================================
\* Properties of the pass over the context list (InfoSpec)
\* ========================================================================
\* the fingerprints (ECUs) of the context list
Fingerprints == {ws_context_list[i].ec : i \in 1 .. Len(ws_context_list)}

\* the number of entries of the list with fingerprint e
Occurrences(e) == Cardinality({i \in 1 .. Len(ws_context_list) : ws_context_list[i].ec = e})

\* the index of the first entry with fingerprint e
FirstSeen(e) ==
  CHOOSE i \in 1 .. Len(ws_context_list) :
    /\ ws_context_list[i].ec = e
    /\ \A j \in 1 .. (i - 1) : ws_context_list[j].ec # e

RECURSIVE SumCnt(_)
SumCnt(S) == IF S = {} THEN 0
             ELSE LET e == CHOOSE x \in S : TRUE
                  IN ht_ec2sampleinfo[e].cnt + SumCnt(S \ {e})

\* ------------------------------------------------------------------------
\* C16: compute_sample_info yields one record per distinct fingerprint with
\* cnt = number of list entries with that fingerprint (the cnt values sum to
\* the list length) and returns the number of distinct fingerprints.
C16_OneRecordPerFingerprint ==
  info_runs = 1 =>
    /\ DOMAIN ht_ec2sampleinfo = Fingerprints
    /\ \A e \in Fingerprints : ht_ec2sampleinfo[e].cnt = Occurrences(e)
    /\ SumCnt(DOMAIN ht_ec2sampleinfo) = Len(ws_context_list)
    /\ ninfo = Cardinality(Fingerprints)

\* a fingerprint recorded three times among others gave one record, cnt 3
C16_Witness ==
  /\ info_runs = 1
  /\ Cardinality(Fingerprints) >= 2
  /\ \E e \in DOMAIN ht_ec2sampleinfo : ht_ec2sampleinfo[e].cnt = 3 /\ Occurrences(e) = 3

\* ------------------------------------------------------------------------
\* a second or later run of compute_sample_info on the same list
RerunStep == info_runs >= 1 /\ info_runs' = info_runs + 1

C18_DenseFirstSeenIds ==
  /\ [](info_runs >= 1 =>
          /\ {ht_ec2sampleinfo[e].id : e \in DOMAIN ht_ec2sampleinfo}
               = 0 .. (Cardinality(DOMAIN ht_ec2sampleinfo) - 1)
          /\ \A e1, e2 \in DOMAIN ht_ec2sampleinfo :
               FirstSeen(e1) < FirstSeen(e2) => ht_ec2sampleinfo[e1].id < ht_ec2sampleinfo[e2].id)
  /\ [][\A e \in DOMAIN ht_ec2sampleinfo : ht_ec2sampleinfo'[e].id = ht_ec2sampleinfo[e].id]_vars

\* three fingerprints, the first of them recurring before the third is seen
C18_Witness ==
  /\ info_runs >= 1
  /\ Cardinality(DOMAIN ht_ec2sampleinfo) = 3
  /\ Len(ws_context_list) = 4
  /\ ws_context_list[3].ec = ws_context_list[1].ec
  /\ ht_ec2sampleinfo[ws_context_list[4].ec].id = 2

\* ========================================================================
\* Properties of the locality tracker (LocSpec)
\* ========================================================================

\* the sum of the absolute differences of the consecutive addresses a[i..]
RECURSIVE Strides(_, _)
Strides(a, i) ==
  IF i > Len(a) THEN 0 ELSE Abs(a[i] - a[i - 1]) + Strides(a, i + 1)

\* C26: after any sequence of track_locality calls with the addresses a1..an
\* on a freshly initialised tracker, n is the number of calls and sum is the
\* sum over i >= 2 of |a_i - a_(i-1)|, so that sum / n is the mean absolute
\* stride.
C26_MeanAbsoluteStride ==
  /\ locality_data.n = Len(addr_log)
  /\ locality_data.sum = Strides(addr_log, 2)

\* ========================================================================
\* Properties of the start-up (CloSpec)
\* ========================================================================

\* C23: invalid configuration is fatal before the engine starts: when the page
\* size, the interval every or the peak window is not positive, an assertion
\* has failed during option processing, no access is ever recorded and no
\* sample is ever taken.
C23_InvalidConfigFatal ==
  (clo_pagesize <= 0 \/ clo_every <= 0 \/ clo_peakwindow <= 0) =>
    /\ phase = "aborted"
    /\ ht_data = EmptyTable /\ ht_insn = EmptyTable
    /\ ref_data = EmptyTable /\ ref_insn = EmptyTable
    /\ ws_at_time = <<>> /\ ticks = 0 /\ drop_samples = 0

\* the second option of the command line sets a non-positive interval
C23_Witness ==
  /\ phase = "aborted"
  /\ Len(args) = 2
  /\ clo_every <= 0
  /\ clo_pagesize > 0 /\ clo_peakwindow > 0

\* the places of the option --ws-tau in the command line
TauGiven == {i \in 1 .. Len(args) : args[i].opt = "--ws-tau"}

\* ws_post_clo_init has run
Started == phase \in {"running", "finished", "crashed"}

PostCloInitStep == phase = "options" /\ phase' = "running"

Values(q) == {q[i] : i \in 1 .. Len(q)}

StrictlyIncreasing(q) == \A i \in 1 .. Len(q) - 1 : q[i] < q[i + 1]

\* the cursor is -1 or an index of the list of user times
CursorValid ==
  next_user_time_idx = -1 \/ next_user_time_idx \in 0 .. Len(ws_info_times) - 1

\* after ws_post_clo_init the cursor is 0 iff there are user times, else -1
CursorAtStart ==
  /\ Len(ws_info_times') > 0 => next_user_time_idx' = 0
  /\ Len(ws_info_times') = 0 => next_user_time_idx' = -1

\* C30: after ws_post_clo_init, for every --ws-info-at input (any order, with
\* repetitions), the list of user times is strictly increasing and contains
\* exactly the distinct values of the input; the cursor is 0 iff the list is
\* non-empty and -1 otherwise, and in every later state the cursor is -1 or a
\* valid index of the list.
C30_UserTimesSortedDistinct ==
  /\ [][PostCloInitStep =>
          /\ StrictlyIncreasing(ws_info_times')
          /\ Values(ws_info_times') = Values(clo_info_at)
          /\ CursorAtStart]_vars
  /\ [](Started => CursorValid)

\* C30 (amended): the list of user times is strictly increasing and contains
\* distinct values of the input only, all of them when every Time could be
\* allocated (a value whose allocation fails is left out); the cursor is 0
\* iff the list is non-empty and -1 otherwise, and in every later state it is
\* -1 or a valid index of the list.
C30_UserTimesSortedAllocated ==
  /\ [][PostCloInitStep =>
          /\ StrictlyIncreasing(ws_info_times')
          /\ Values(ws_info_times') \subseteq Values(clo_info_at)
          /\ ev'.alloc_ctx => Values(ws_info_times') = Values(clo_info_at)
          /\ CursorAtStart]_vars
  /\ [](Started => CursorValid)

\* an unsorted input with a repetition, every Time allocated
C30_Witness ==
  /\ ev.op = "post_clo_init" /\ ev.alloc_ctx
  /\ clo_info_at = <<2, 1, 2>>
  /\ ws_info_times = <<1, 2>>
  /\ next_user_time_idx = 0

\* ========================================================================
\* Properties of pageaddr (PageSpec)
\* ========================================================================

\* C31: for every power-of-two page size and every address, pageaddr(address)
\* is the largest multiple of the page size that is <= address (0 <= address
\* - pageaddr(address) < page size), so two addresses map to the same page
\* record iff they lie in the same page-size-aligned range.
C31_PageAddrAligned ==
  /\ addr_log # <<>> =>
       /\ lastaddr % clo_pagesize = 0
       /\ 0 <= Last(addr_log) - lastaddr
       /\ Last(addr_log) - lastaddr < clo_pagesize
  /\ \A i, j \in 1 .. Len(addr_log) :
       pageaddr(clo_pagesize, addr_log[i]) = pageaddr(clo_pagesize, addr_log[j])
         <=> addr_log[i] \div clo_pagesize = addr_log[j] \div clo_pagesize

\* two addresses of one page and the page is not the first one
C31_Witness ==
  /\ Len(addr_log) = 2
  /\ clo_pagesize = 4
  /\ addr_log[1] # addr_log[2]
  /\ lastaddr = 8
  /\ pageaddr(clo_pagesize, addr_log[1]) = lastaddr
  /\ addr_log[2] # lastaddr


\* ========================================================================
\* Properties of ws_instrument (InstrSpec)
\* ========================================================================
\* a memory or instruction reference of a statement
Ref(kind, st, guard) ==
  [kind |-> kind, addr |-> st.addr, size |-> st.size, guard |-> guard, ll |-> st.aux = "LL"]

\* the references statement st of the block makes, in program order
RefsOf(st) ==
  CASE st.tag = "Ist_IMark" -> <<Ref("Ir", st, NullAtom)>>
    [] st.tag = "Ist_WrTmp_Load" -> <<Ref("Dr", st, NullAtom)>>
    [] st.tag = "Ist_Store" -> <<Ref("Dw", st, NullAtom)>>
    [] st.tag = "Ist_StoreG" -> <<Ref("Dw", st, st.guard)>>
    [] st.tag = "Ist_LoadG" -> <<Ref("Dr", st, st.guard)>>
    [] st.tag = "Ist_Dirty" /\ st.aux = "Ifx_Modify" ->
         <<Ref("Dr", st, NullAtom), Ref("Dw", st, NullAtom)>>
    [] st.tag = "Ist_CAS" -> <<Ref("Dr", st, NullAtom), Ref("Dw", st, NullAtom)>>
    [] st.tag = "Ist_LLSC" /\ st.aux = "LL" -> <<Ref("Dr", st, NullAtom)>>
    [] st.tag = "Ist_LLSC" /\ st.aux = "SC" -> <<Ref("Dw", st, NullAtom)>>
    [] OTHER -> <<>>

RECURSIVE Refs(_, _)
\* the references of the block's statements among the first p statements of sb
Refs(sb, p) ==
  IF p = 0 THEN <<>>
  ELSE Refs(sb, p - 1) \o (IF sb[p].tag \in Added THEN <<>> ELSE RefsOf(sb[p]))

RECURSIVE RefsAt(_, _)
\* for each of these references, the index in sb of the statement that makes it
RefsAt(sb, p) ==
  IF p = 0 THEN <<>>
  ELSE RefsAt(sb, p - 1) \o
       (IF sb[p].tag \in Added THEN <<>> ELSE [i \in DOMAIN RefsOf(sb[p]) |-> p])

\* the helper call that delivers reference r
CallOf(r) ==
  [helper |-> IF r.kind = "Ir" THEN "trace_instr" ELSE "trace_data",
   addr |-> r.addr, size |-> r.size, guard |-> r.guard]

RECURSIVE Calls(_, _)
\* the helper calls among the first p statements of sb
Calls(sb, p) ==
  IF p = 0 THEN <<>>
  ELSE Calls(sb, p - 1) \o
       (IF sb[p].tag = "helper"
          THEN <<[helper |-> sb[p].aux, addr |-> sb[p].addr, size |-> sb[p].size,
                  guard |-> sb[p].guard]>>
          ELSE <<>>)

\* reference i of R is an ordinary write directly behind an ordinary read of
\* the same size and address
Mergeable(R, i) ==
  /\ i > 1
  /\ R[i].kind = "Dw" /\ R[i].guard = NullAtom
  /\ R[i - 1].kind = "Dr" /\ R[i - 1].guard = NullAtom
  /\ R[i - 1].size = R[i].size /\ R[i - 1].addr = R[i].addr

RECURSIVE Without(_, _, _)
\* the calls for the first n references of R, those at the indices D left out
Without(R, D, n) ==
  IF n = 0 THEN <<>>
  ELSE Without(R, D, n - 1) \o (IF n \in D THEN <<>> ELSE <<CallOf(R[n])>>)

\* E delivers the references R in order, one call each, a merged write
\* sharing the call of its read
Delivers(E, R) ==
  \E D \in SUBSET {i \in 1 .. Len(R) : Mergeable(R, i)} : E = Without(R, D, Len(R))

\* the block has been instrumented to its end
BlockDone == phase \in {"instrumented", "left"}

\* C32: no event is outstanding at an exit from the block: when ws_instrument
\* has handled an Ist_Exit and when it has reached the end of the block the
\* event list is empty (events_used = 0), and the helper calls in front of
\* every exit and of the end deliver the events added up to there, one call
\* per unmerged event, in the order in which they were added.
C32_FlushedAtEveryExit ==
  /\ (sbOut # <<>> /\ Last(sbOut).tag = "Ist_Exit") \/ BlockDone => events_used = 0
  /\ \A p \in 1 .. Len(sbOut) :
       sbOut[p].tag = "Ist_Exit" \/ (BlockDone /\ p = Len(sbOut))
         => Delivers(Calls(sbOut, p), Refs(sbOut, p))

\* a block with an exit in its middle: two events are delivered in front of
\* the exit and another at the end
C32_Witness ==
  /\ phase = "instrumented"
  /\ \E p \in 1 .. Len(sbOut) :
       /\ sbOut[p].tag = "Ist_Exit"
       /\ Len(Calls(sbOut, p)) = 2
       /\ Len(Calls(sbOut, Len(sbOut))) = 4
       /\ Len(Refs(sbOut, Len(sbOut))) = 5

\* C33: in every reachable state 0 <= events_used <= N_EVENTS, the event
\* list keeps its N_EVENTS slots 0 .. N_EVENTS - 1 (an event is only written
\* to one of them), and the assertion events_used >= 0 /\ events_used <
\* N_EVENTS of the addEvent functions never fails, whatever the statements
\* of the block.
C33_EventListBounded ==
  /\ events_used \in 0 .. N_EVENTS
  /\ DOMAIN events = 0 .. N_EVENTS - 1
  /\ \A i \in 0 .. events_used - 1 : events[i].ekind # "none"
  /\ phase # "aborted"

\* a fifth event arrived at the full list: the four before it were flushed
\* by addEvent itself and the new one sits in slot 0
C33_Witness ==
  /\ phase = "instrument"
  /\ events_used = 1
  /\ Len(Calls(sbOut, Len(sbOut))) = N_EVENTS
  /\ \A p \in 1 .. Len(sbOut) : sbOut[p].tag \notin {"Ist_Exit", "Ist_LLSC"}
  /\ events[0].ekind # "none"

\* the calls that deliver the events of the list
Listed == [i \in 1 .. events_used |-> CallOf([kind |-> IF events[i - 1].ekind = "Event_Ir"
                                                          THEN "Ir" ELSE "D",
                                              addr |-> events[i - 1].addr,
                                              size |-> events[i - 1].size,
                                              guard |-> events[i - 1].guard])]

\* the read in front of write i of R is still in the event list when the
\* write is added: it is not the read of a load-linked, which is flushed at
\* once, and no exit lies between the two statements
StillListed(sb, R, i) ==
  /\ ~R[i - 1].ll
  /\ \A p \in RefsAt(sb, Len(sb))[i - 1] .. RefsAt(sb, Len(sb))[i] :
       sb[p].tag # "Ist_Exit"

\* the writes of R that share the call of the read in front of them
Merged(sb, R) == {i \in 1 .. Len(R) : Mergeable(R, i) /\ StillListed(sb, R, i)}

\* C34: an ordinary write that directly follows an unguarded read of the
\* same size and address that is still in the event list is merged into it,
\* so that the two are delivered by one trace_data call; every other write
\* (behind a guarded read, behind a read of another size or address, behind
\* a read that has been flushed) gets a call of its own. The calls emitted
\* and those still listed are the block's references without exactly the
\* merged writes.
C34_WriteMergedIntoRead ==
  LET R == Refs(sbOut, Len(sbOut))
  IN  /\ Calls(sbOut, Len(sbOut)) \o Listed = Without(R, Merged(sbOut, R), Len(R))
      /\ \A i \in 0 .. events_used - 1 : events[i].ekind = "Event_Dm" => events[i].guard = NullAtom

\* a block in which one write was merged into its read and another, behind
\* a read that was flushed, was not
C34_Witness ==
  LET R == Refs(sbOut, Len(sbOut))
  IN  /\ phase = "instrumented"
      /\ Merged(sbOut, R) # {}
      /\ \E i \in 1 .. Len(R) : Mergeable(R, i) /\ i \notin Merged(sbOut, R)
      /\ Len(Calls(sbOut, Len(sbOut))) = Len(R) - 1

\* the IMarks among the first p statements of sb
IMarks(sb, p) == {i \in 1 .. p : sb[i].tag = "Ist_IMark"}

\* the first statement of the block behind statement p of sb, if any
NextStmt(sb, p) == {i \in StmtsIn(sb) : i > p /\ \A j \in StmtsIn(sb) : j > p => i <= j}

\* every counter update of sb stands in front of an exit or of the block's end
InBatches(sb) ==
  \A p \in 1 .. Len(sb) :
    sb[p].tag = "counter_update" =>
      /\ sb[p].n > 0
      /\ \A i \in NextStmt(sb, p) : sb[i].tag = "Ist_Exit"
      /\ NextStmt(sb, p) = {} => BlockDone

\* C35: the logical clock is increased in batches in front of the exits and
\* of the end of the block: an execution that leaves the instrumented block,
\* at any exit or at its end, has increased guest_instrs_executed by exactly
\* the number of IMarks in front of the place where it leaves, each
\* instruction counted once, and no step ever decreases the counter.
C35_ClockCountsIMarks ==
  /\ [](InBatches(sbOut))
  /\ [](phase = "left" => guest_instrs_executed = Cardinality(IMarks(sbOut, ev.at)))
  /\ [][guest_instrs_executed' >= guest_instrs_executed]_vars

\* an execution leaves a block of three instructions at an exit in its
\* middle, behind two of them
C35_Witness ==
  /\ phase = "left"
  /\ ev.at < Len(sbOut)
  /\ guest_instrs_executed = 2
  /\ Cardinality(IMarks(sbOut, Len(sbOut))) = 3


\* ========================================================================
\* Properties of the helper calls and of the report (Spec)
\* ========================================================================

\* C36: pageaccess never dereferences a NULL record: no helper call ends in
\* a NULL dereference, and the record the cache holds after a call (on a hit
\* the record it held before) is a record of the table passed to the call.
\* This covers a first access to page address 0.
C36_CacheHitHasRecord ==
  [][/\ ev'.op # "null_deref"
     /\ ev'.op \in {"data", "insn"} => lastpage' # NULL /\ lastpage'.tab = ev'.op]_vars

\* row i of the report shows a context id
Annotated(rows, i) == ToString(rows[i].info) \notin {ToString("-"), ToString("none")}

\* the contexts of list recorded at time t
ContextsAt(list, t) == {k \in 1 .. Len(list) : list[k].t = t}

\* C37: in the report a sample row shows a context id iff a SampleContext
\* was recorded at the tick of that sample, the id is the id of the record
\* of that context, every SampleContext belongs to exactly one row and the
\* lookup of the record never fails; this includes the forced last sample
\* when it has the time of the sample in front of it.  (The samples of the
\* run have distinct times, so a context recorded during the run belongs to
\* the row of its time; the forced sample is the last row and its context
\* the last of the list.)
C37_RowShowsItsContext ==
  [][phase = "running" /\ phase' = "finished" /\ out'.opened =>
       LET rows == out'.rows
           n == Len(ws_at_time)
           forced == Len(ws_at_time') = n + 1 /\ Len(ws_context_list') = Len(ws_context_list) + 1
       IN  /\ ~out'.lookup_failed
           /\ \A i \in 1 .. n :
                /\ Annotated(rows, i) <=> ContextsAt(ws_context_list, rows[i].t) # {}
                /\ \A k \in ContextsAt(ws_context_list, rows[i].t) :
                     rows[i].info = ht_ec2sampleinfo'[ws_context_list[k].ec].id
           /\ Len(rows) = n + 1 =>
                /\ Annotated(rows, n + 1) <=> forced
                /\ forced => rows[n + 1].info = ht_ec2sampleinfo'[Last(ws_context_list').ec].id
           /\ Cardinality({i \in 1 .. Len(rows) : Annotated(rows, i)}) = Len(ws_context_list')]_vars


\* the records of table ht2 that are new or differ from those of ht
Updated(ht, ht2) == {k \in DOMAIN ht2 : k \notin DOMAIN ht \/ ht2[k] # ht[k]}

\* C38: each delivered access updates exactly one page record, the one of
\* the page that contains its first byte, whatever its size (the helpers do
\* not use the size): no record of another page, such as the following page
\* of an access that crosses a page boundary, is created or touched, and
\* every other record of both tables stays as it is.
C38_OneRecordPerAccess ==
  [][ev'.op \in {"data", "insn", "null_deref"} =>
       /\ DOMAIN ht_data \subseteq DOMAIN ht_data'
       /\ DOMAIN ht_insn \subseteq DOMAIN ht_insn'
       /\ Cardinality(Updated(ht_data, ht_data')) + Cardinality(Updated(ht_insn, ht_insn')) = 1
       /\ Updated(ht_data, ht_data') \cup Updated(ht_insn, ht_insn') = {lastaddr'}]_vars

\* ========================================================================
\* Properties of the pageramp test (RampSpec)
\* ========================================================================
\* a cycle of maxp claims and maxp releases has just been completed
CycleDone ==
  \/ ramp.at = "up" /\ ramp.p = 0 /\ ramp.c > 0
  \/ ramp.at = "done" /\ ramp.maxp > 0 /\ ramp.cycles > 0

\* C39: in the pageramp test release_page undoes claim_page: each release
\* unmaps the page claimed last that is still mapped, every index into
\* pt.tab lies in [0, maxp), touch_pages never writes to a page that is not
\* mapped, and after a cycle of maxp claims and maxp releases none of the
\* pages claimed in the cycle is mapped and pt.num = 0.
C39_ReleaseUndoesClaim ==
  /\ [](~ramp_log.oob)
  /\ [](~ramp_log.fault)
  /\ [](CycleDone => pt.num = 0 /\ ramp_log.cycle \cap mapped = {})
  /\ [][ramp.at = "down" /\ ramp'.at = "down_touch" =>
          /\ pt.num > 0
          /\ pt.tab[pt.num - 1] \in mapped
          /\ mapped' = mapped \ {pt.tab[pt.num - 1]}]_vars

====
